---- MODULE Spec2Model ----
(***************************************************************************)
(* Model of the voice-transcription application: the filler-sound stripper *)
(* (lib/llm.ts, in its two forms), the provider adapters (lib/gemini-api.ts,                  *)
(* lib/server/speech-to-text-server.ts), the recorder component            *)
(* (components/recorder/AudioRecorder.tsx), the page orchestrator          *)
(* (app/page.tsx) and the result view (components/ui/TranscriptionResult). *)
(*                                                                         *)
(* Text is a sequence of character tokens.  The Japanese characters of the *)
(* source are written in ASCII:                                            *)
(*   "a" A(hiragana)   "e" E   "u" U   "n" N   "bar" long-vowel mark       *)
(*   "so" SO  "no" NO  "ma" MA  "xa" small A  "xtu" small TU  "to" TO      *)
(*   "de" DE  "su" SU  "ne" NE  "ten" ideographic comma  "maru" full stop  *)
(*   "sp" any whitespace character; every other token is a character that  *)
(*   occurs in no filler pattern.                                          *)
(***************************************************************************)
EXTENDS Integers, Sequences, FiniteSets, TLC

\* ------------------------------------------------------------- bounds
\* longest text drawn exhaustively from FillerAlphabet
MaxLen == 4
\* provider calls issued in one exploration of the adapters
MaxCalls == 3
\* recordings started in one session of the page
MaxRecordings == 2
\* dataavailable events delivered during one recording
MaxChunks == 2
\* the duration ceiling, in timer periods
MaxTicks == 2

VARIABLES
  fModule,   \* which removeFillerSounds is run: "single" | "commaFirst"
  fInput,    \* text handed to removeFillerSounds
  fPhase,    \* "input" | "once" | "twice"
  fOut1,     \* result of removeFillerSounds(fInput)
  fOut2      \* result of removeFillerSounds applied to fOut1's text

fillerVars == <<fModule, fInput, fPhase, fOut1, fOut2>>

VARIABLES
  geminiKey,      \* API_KEY of gemini-api.ts is a non-empty string
  speechKey,      \* process.env.GOOGLE_SPEECH_API_KEY is set
  genAIInstance,  \* the lazily built GoogleGenerativeAI singleton exists
  adCall,         \* the adapter invocation under way, or the last one
  netCalls        \* generateContent / fetch calls issued so far

adapterVars == <<geminiKey, speechKey, genAIInstance, adCall, netCalls>>

VARIABLES
  maxDurationMs,   \* AudioRecorder prop
  isRecording,     \* AudioRecorder state
  recordingTime,   \* AudioRecorder state, ms
  recProcessing,   \* AudioRecorder state isProcessing
  recError,        \* AudioRecorder state error, <<>> for null
  startPc,         \* "idle" | "awaitingMic": startRecording at its await
  mediaRecorder,   \* state of mediaRecorderRef.current: "none" | "recording" | "inactive"
  stopPending,     \* the stop event of the recorder is queued
  audioChunks,     \* audioChunksRef.current
  chunkEvents,     \* the data of the dataavailable events of the current
                   \* MediaRecorder so far, in the order of the events
  recCount,        \* getUserMedia calls so far, one for each recording asked for
  liveStreams,     \* recordings whose microphone stream has live tracks
  mediaSupport,    \* what the browser offers: "ok" | "noMediaDevices" | "noMediaRecorder"
  mounted,         \* the component is mounted
  hasPermission,   \* state of the stream-keeping recorder: "unknown" (null) | "yes" | "no"
  streamRef,       \* streamRef.current of the stream-keeping recorder, NoStream for null
  mountPc,         \* "awaitingMic" | "done": its mount effect at await getUserMedia
  recorderModule,  \* the recorder rendered: "release" (stops the stream at each
                   \* onstop) | "keep" (the stream-keeping recorder)
  supportedTypes,  \* the types for which MediaRecorder.isTypeSupported answers true
  selectedMimeType,\* selectedMimeType of the startRecording that built the recorder
  recorderOptions  \* the options that recorder was built with

recorderVars == <<maxDurationMs, isRecording, recordingTime, recProcessing, recError,
                  startPc, mediaRecorder, stopPending, audioChunks, chunkEvents,
                  recCount, liveStreams, mediaSupport, mounted,
                  hasPermission, streamRef, mountPc, recorderModule,
                  supportedTypes, selectedMimeType, recorderOptions>>

formatVars == <<supportedTypes, selectedMimeType, recorderOptions>>

\* the state that only the stream-keeping recorder has
keepVars == <<hasPermission, streamRef, mountPc, recorderModule>>

VARIABLES
  apiKeyError,        \* Home state
  transcription,      \* Home state
  fillerRemovedText,  \* Home state
  correctedText,      \* Home state
  isTranscribing,     \* Home state
  isProcessing,       \* Home state
  errorMessage,       \* Home state, <<>> for null
  runs,               \* the handleRecordingComplete invocations, by recording
  editableTexts,      \* TranscriptionResult state
  typedTexts          \* what the user last typed into each text area since the
                      \* page last changed the text it shows, NoText for nothing

pageVars == <<apiKeyError, transcription, fillerRemovedText, correctedText,
              isTranscribing, isProcessing, errorMessage, runs>>

viewVars == <<editableTexts, typedTexts>>

VARIABLES
  llmCall   \* the call of transcribeAudio or correctTranscription under way,
            \* or the last one

llmVars == <<llmCall>>

VARIABLES
  routeCall   \* the request the transcription route is answering, or the last one

routeVars == <<routeCall>>

\* ------------------------------------------------------------- text helpers
IsSpace(c) == c = "sp"

\* String.prototype.trim().length === 0 (also true of the empty string)
IsBlank(s) == \A i \in 1..Len(s) : IsSpace(s[i])

RECURSIVE TrimLeft(_)
TrimLeft(s) ==
  IF s # <<>> /\ IsSpace(Head(s)) THEN TrimLeft(Tail(s)) ELSE s

RECURSIVE TrimRight(_)
TrimRight(s) ==
  IF s # <<>> /\ IsSpace(s[Len(s)]) THEN TrimRight(SubSeq(s, 1, Len(s) - 1)) ELSE s

\* String.prototype.trim
Trim(s) == TrimRight(TrimLeft(s))

\* number of consecutive tokens equal to c in s, starting at position i
RECURSIVE RunLen(_, _, _)
RunLen(s, i, c) ==
  IF i <= Len(s) /\ s[i] = c THEN 1 + RunLen(s, i + 1, c) ELSE 0

\* s.replace(/c+/g, c): every run of c becomes a single c
RECURSIVE CollapseRuns(_, _)
CollapseRuns(s, c) ==
  IF s = <<>> THEN <<>>
  ELSE IF Head(s) = c
       THEN <<c>> \o CollapseRuns(SubSeq(s, 1 + RunLen(s, 1, c), Len(s)), c)
       ELSE <<Head(s)>> \o CollapseRuns(Tail(s), c)

\* ------------------------------------------------------------- filler patterns
\* A pattern /pre rep+ post/g: the literal pre, one or more rep (greedy), the
\* literal post.  rep = "" stands for a pattern without a repeated character.
Pat(pre, rep, post) == [pre |-> pre, rep |-> rep, post |-> post]

fillerPatternsWithComma == <<
  Pat(<<"a">>, "bar", <<"ten">>),  Pat(<<"e">>, "bar", <<"ten">>),
  Pat(<<"u">>, "bar", <<"ten">>),  Pat(<<"n">>, "bar", <<"ten">>),
  Pat(<<"so">>, "no", <<"ten">>),  Pat(<<"ma">>, "xa", <<"ten">>),
  Pat(<<"a">>, "no", <<"ten">>),   Pat(<<"e", "xtu", "to">>, "", <<"ten">>),
  Pat(<<"n", "to">>, "", <<"ten">>),
  Pat(<<"a", "no">>, "bar", <<"ten">>),
  Pat(<<"e", "bar", "to">>, "", <<"ten">>),
  Pat(<<"e", "xtu", "to">>, "bar", <<"ten">>),
  Pat(<<"e", "e", "to">>, "", <<"ten">>),
  Pat(<<"ma", "a">>, "", <<"ten">>),
  Pat(<<"e">>, "e", <<"ten">>),
  Pat(<<"u", "bar">>, "n", <<"ten">>),
  Pat(<<"e", "xtu", "to", "de", "su", "ne">>, "", <<"ten">>) >>

fillerPatternsWithoutComma == <<
  Pat(<<"a">>, "bar", <<>>),  Pat(<<"e">>, "bar", <<>>),
  Pat(<<"u">>, "bar", <<>>),  Pat(<<"n">>, "bar", <<>>),
  Pat(<<"so">>, "no", <<>>),  Pat(<<"ma">>, "xa", <<>>),
  Pat(<<"ma", "ten">>, "", <<>>),
  Pat(<<"a">>, "no", <<>>),   Pat(<<"e", "xtu", "to">>, "", <<>>),
  Pat(<<"n", "to">>, "", <<>>),
  Pat(<<"a", "no">>, "bar", <<>>),
  Pat(<<"e", "bar", "to">>, "", <<>>),
  Pat(<<"e", "xtu", "to">>, "bar", <<>>),
  Pat(<<"e", "e", "to">>, "", <<>>),
  Pat(<<"ma", "a">>, "", <<>>),
  Pat(<<"e">>, "e", <<>>),
  Pat(<<"u", "bar">>, "n", <<>>),
  Pat(<<"e", "xtu", "to", "de", "su", "ne">>, "", <<>>) >>

\* the one list of the single-pass stripper: the same eighteen expressions
fillerPatterns == fillerPatternsWithoutComma

IsAt(s, i, lit) ==
  /\ i + Len(lit) - 1 <= Len(s)
  /\ \A k \in 1..Len(lit) : s[i + k - 1] = lit[k]

\* length of the match of p that starts at position i of s, 0 when there is
\* none.  rep never equals the first token of post, so the greedy run is the
\* only candidate.
MatchLen(p, s, i) ==
  IF ~IsAt(s, i, p.pre) THEN 0
  ELSE LET j == i + Len(p.pre)
           r == IF p.rep = "" THEN 0 ELSE RunLen(s, j, p.rep)
       IN  IF p.rep # "" /\ r = 0 THEN 0
           ELSE IF IsAt(s, j + r, p.post) THEN Len(p.pre) + r + Len(p.post)
           ELSE 0

\* RegExp.prototype.test
PatternTest(p, s) == \E i \in 1..Len(s) : MatchLen(p, s, i) > 0

\* s.replace(p, '') for a global pattern: leftmost matches, left to right
RECURSIVE ReplaceFrom(_, _, _)
ReplaceFrom(p, s, i) ==
  IF i > Len(s) THEN <<>>
  ELSE LET m == MatchLen(p, s, i)
       IN  IF m > 0 THEN ReplaceFrom(p, s, i + m)
           ELSE <<s[i]>> \o ReplaceFrom(p, s, i + 1)

ReplaceAll(p, s) == ReplaceFrom(p, s, 1)

\* while (pattern.test(cleanedText)) cleanedText = cleanedText.replace(pattern, '')
RECURSIVE StripUntilNoMatch(_, _)
StripUntilNoMatch(p, s) ==
  IF s = <<>> THEN s
  ELSE IF PatternTest(p, s) THEN StripUntilNoMatch(p, ReplaceAll(p, s))
  ELSE s

\* for (const pattern of patterns) { while ... }, from pattern number k on
RECURSIVE StripPatterns(_, _, _)
StripPatterns(patterns, k, s) ==
  IF k > Len(patterns) THEN s
  ELSE StripPatterns(patterns, k + 1, StripUntilNoMatch(patterns[k], s))

\* patterns.forEach(p => text = text.replace(p, '')): each pattern once
RECURSIVE ReplaceEachOnce(_, _, _)
ReplaceEachOnce(patterns, k, s) ==
  IF k > Len(patterns) THEN s
  ELSE ReplaceEachOnce(patterns, k + 1, ReplaceAll(patterns[k], s))

\* the text left after both pattern lists were applied
StripFillers(s) ==
  StripPatterns(fillerPatternsWithoutComma, 1,
                StripPatterns(fillerPatternsWithComma, 1, s))

\* the text left after the single pass over fillerPatterns
StripFillersOnce(s) == ReplaceEachOnce(fillerPatterns, 1, s)

\* cleanedText.replace(/\s+/g, ' ').trim(), then the two punctuation rules
TidyText(s) ==
  CollapseRuns(CollapseRuns(Trim(CollapseRuns(s, "sp")), "ten"), "maru")

Ok(text) == [ok |-> TRUE, text |-> text, err |-> <<>>]
Err(msg) == [ok |-> FALSE, text |-> <<>>, err |-> msg]

\* the stripper without its guard on the cleaned text
NeverBlank(cleaned) == FALSE

\* the guard on the cleaned text, before it is returned
ResultIsEmpty(cleaned) == IsBlank(cleaned)

\* the stripper with one list, every pattern replaced once
removeFillerSounds(rawText) ==
  IF IsBlank(rawText)
  THEN Err(<<"FillerRemovalFailed", "InputEmpty">>)
  ELSE LET cleanedText == Trim(CollapseRuns(StripFillersOnce(rawText), "sp"))
       IN  IF ResultIsEmpty(cleanedText)
           THEN Err(<<"FillerRemovalFailed", "ResultEmpty">>)
           ELSE Ok(Trim(cleanedText))

\* the stripper with the comma patterns first and the replace-until-no-match loops
removeFillerSoundsCommaFirst(rawText) ==
  IF IsBlank(rawText)
  THEN Err(<<"FillerRemovalFailed", "InputEmpty">>)
  ELSE LET cleanedText == TidyText(StripFillers(rawText))
       IN  IF ResultIsEmpty(cleanedText)
           THEN Err(<<"FillerRemovalFailed", "ResultEmpty">>)
           ELSE Ok(Trim(cleanedText))

FillerModules == {"single", "commaFirst"}

RunStripper(module, text) ==
  IF module = "single" THEN removeFillerSounds(text)
  ELSE removeFillerSoundsCommaFirst(text)

\* the text a module has left when its patterns are done
Stripped(module, text) ==
  IF module = "single" THEN StripFillersOnce(text) ELSE StripFillers(text)

\* ------------------------------------------------------------- stripper runs
FillerAlphabet == {"a", "e", "bar", "ma", "ten", "to", "sp"}

\* "e-to, kyou wa kaigi desu. e-, yoroshiku onegai shimasu."
MeetingSentence == <<
  "e", "bar", "to", "ten", "ima", "hi", "ha", "kai", "gi", "de", "su", "maru",
  "e", "bar", "ten", "yo", "ro", "si", "ku", "o", "negai", "i", "si", "ma",
  "su", "maru" >>

MeetingSentenceClean == <<
  "ima", "hi", "ha", "kai", "gi", "de", "su", "maru",
  "yo", "ro", "si", "ku", "o", "negai", "i", "si", "ma", "su", "maru" >>

FillerInputs ==
  UNION {[1..n -> FillerAlphabet] : n \in 0..MaxLen} \cup {MeetingSentence}

NoResult == [ok |-> FALSE, text |-> <<>>, err |-> <<"NotRun">>]

InitFiller ==
  /\ fModule \in FillerModules
  /\ fInput \in FillerInputs
  /\ fPhase = "input"
  /\ fOut1 = NoResult
  /\ fOut2 = NoResult

\* const out = await removeFillerSounds(input)
ApplyFiller ==
  /\ fPhase = "input"
  /\ fOut1' = RunStripper(fModule, fInput)
  /\ fPhase' = "once"
  /\ UNCHANGED <<fModule, fInput, fOut2, adapterVars, recorderVars, pageVars, viewVars, llmVars, routeVars>>

\* the stripper run again on its own output
ApplyFillerAgain ==
  /\ fPhase = "once"
  /\ fOut1.ok
  /\ fOut2' = RunStripper(fModule, fOut1.text)
  /\ fPhase' = "twice"
  /\ UNCHANGED <<fModule, fInput, fOut1, adapterVars, recorderVars, pageVars, viewVars, llmVars, routeVars>>


\* ------------------------------------------------------------- provider adapters
\* An error message is the sequence of its parts, outermost prefix first.
MissingGeminiKeyTranscribe == <<"MissingGeminiKey", "CannotTranscribe">>
MissingGeminiKeyGenerate == <<"MissingGeminiKey", "CannotGenerateText">>
MissingSpeechKey == <<"MissingSpeechKey">>

\* catch (error) { throw error }
RethrowSame(msg) == msg

\* catch (error) { throw new Error(`text generation failed (temperature=..)`) }
RethrowGenerateText(msg) == <<"TextGenerationFailed">>

\* catch (error) { throw new Error(`Speech API error: ${error.message}`) }
RethrowSpeech(msg) == <<"SpeechApiError">> \o msg

MimeTypes == {"audio/webm", "audio/mp4", "audio/mp3", "audio/wav",
              "audio/mpeg", "audio/ogg", "audio/flac", "audio/x-wav",
              "audio/webm;codecs=opus"}

\* mimeType.includes(word)
MimeIncludes(mimeType, word) ==
  \/ word = "webm" /\ mimeType \in {"audio/webm", "audio/webm;codecs=opus"}
  \/ word = "mp3"  /\ mimeType = "audio/mp3"
  \/ word = "mpeg" /\ mimeType = "audio/mpeg"
  \/ word = "wav"  /\ mimeType \in {"audio/wav", "audio/x-wav"}
  \/ word = "flac" /\ mimeType = "audio/flac"

SpeechEncoding(mimeType) ==
  IF MimeIncludes(mimeType, "webm") THEN "WEBM_OPUS"
  ELSE IF MimeIncludes(mimeType, "mp3") \/ MimeIncludes(mimeType, "mpeg") THEN "MP3"
  ELSE IF MimeIncludes(mimeType, "wav") THEN "LINEAR16"
  ELSE IF MimeIncludes(mimeType, "flac") THEN "FLAC"
  ELSE "OGG_OPUS"

SpeechSampleRate(mimeType) ==
  IF MimeIncludes(mimeType, "webm") THEN 48000 ELSE 16000

\* the switch of the client-library adapter, on the whole MIME type
getEncodingFromMimeType(mimeType) ==
  IF mimeType \in {"audio/wav", "audio/x-wav"} THEN "LINEAR16"
  ELSE IF mimeType = "audio/webm" THEN "WEBM_OPUS"
  ELSE IF mimeType \in {"audio/mp3", "audio/mpeg"} THEN "MP3"
  ELSE IF mimeType = "audio/ogg" THEN "OGG_OPUS"
  ELSE IF mimeType = "audio/flac" THEN "FLAC"
  ELSE "LINEAR16"

\* sampleRateHertz of the client-library adapter's config
ClientSampleRate(mimeType) == 16000

\* what the provider may answer with
ModelTexts == {<<>>, <<"sp">>, <<"k">>, <<"sp", "k">>}
GeminiAnswers == {[kind |-> "text", text |-> x] : x \in ModelTexts}
                   \cup {[kind |-> "throws", text |-> <<>>]}
SpeechAnswers == {[kind |-> "results", text |-> x] : x \in ModelTexts}
                   \cup {[kind |-> k, text |-> <<>>] : k \in {"notOk", "noResults", "throws"}}

NoAnswer == [kind |-> "none", text |-> <<>>]

IdleCall == [fn |-> "none", pc |-> "idle", calls |-> 0, result |-> NoResult,
             keyPresent |-> TRUE, request |-> <<>>, answer |-> NoAnswer]

StartCall(fn, keyPresent, request) ==
  [fn |-> fn, pc |-> "awaiting", calls |-> 1, result |-> NoResult,
   keyPresent |-> keyPresent, request |-> request, answer |-> NoAnswer]

FailedEarly(fn, msg) ==
  [fn |-> fn, pc |-> "done", calls |-> 0, result |-> Err(msg),
   keyPresent |-> FALSE, request |-> <<>>, answer |-> NoAnswer]

\* the first statements of transcribeAudioWithGemini: does it stop on the key?
GeminiTranscribeKeyGuard(key) == ~key

\* the first statements of generateText
GenerateTextKeyGuard(key) == ~key

\* the first statements of transcribeAudioWithSpeechAPI
SpeechKeyGuard(key) == ~key

InitAdapters ==
  /\ geminiKey \in BOOLEAN
  /\ speechKey \in BOOLEAN
  /\ genAIInstance = FALSE
  /\ adCall = IdleCall
  /\ netCalls = 0

\* genAI(): builds the singleton when there is a key, throws when there is none
GenAIThrows == ~genAIInstance /\ ~geminiKey

transcribeAudioWithGemini(mimeType) ==
  /\ adCall.pc # "awaiting"
  /\ netCalls < MaxCalls
  /\ IF GeminiTranscribeKeyGuard(geminiKey)
     THEN /\ adCall' = FailedEarly("transcribeAudioWithGemini",
                                   RethrowSame(MissingGeminiKeyTranscribe))
          /\ UNCHANGED <<genAIInstance, netCalls>>
     ELSE IF GenAIThrows
     THEN /\ adCall' = FailedEarly("transcribeAudioWithGemini",
                                   RethrowSame(<<"NoApiInstance">>))
          /\ UNCHANGED <<genAIInstance, netCalls>>
     ELSE /\ genAIInstance' = TRUE
          /\ adCall' = StartCall("transcribeAudioWithGemini", geminiKey, <<mimeType>>)
          /\ netCalls' = netCalls + 1
  /\ UNCHANGED <<geminiKey, speechKey, fillerVars, recorderVars, pageVars, viewVars, llmVars, routeVars>>

generateText ==
  /\ adCall.pc # "awaiting"
  /\ netCalls < MaxCalls
  /\ IF GenerateTextKeyGuard(geminiKey)
     THEN /\ adCall' = FailedEarly("generateText",
                                   RethrowGenerateText(MissingGeminiKeyGenerate))
          /\ UNCHANGED <<genAIInstance, netCalls>>
     ELSE IF GenAIThrows
     THEN /\ adCall' = FailedEarly("generateText",
                                   RethrowGenerateText(<<"NoApiInstance">>))
          /\ UNCHANGED <<genAIInstance, netCalls>>
     ELSE /\ genAIInstance' = TRUE
          /\ adCall' = StartCall("generateText", geminiKey, <<"prompt">>)
          /\ netCalls' = netCalls + 1
  /\ UNCHANGED <<geminiKey, speechKey, fillerVars, recorderVars, pageVars, viewVars, llmVars, routeVars>>

\* model.generateContent(...) settles
GenerateContentSettles(answer) ==
  /\ adCall.pc = "awaiting"
  /\ adCall.fn \in {"transcribeAudioWithGemini", "generateText"}
  /\ adCall' = [adCall EXCEPT
       !.pc = "done",
       !.answer = answer,
       !.result =
         IF answer.kind = "text" THEN Ok(answer.text)
         ELSE IF adCall.fn = "generateText"
              THEN Err(RethrowGenerateText(<<"ProviderError">>))
              ELSE Err(RethrowSame(<<"ProviderError">>))]
  /\ UNCHANGED <<geminiKey, speechKey, genAIInstance, netCalls,
                 fillerVars, recorderVars, pageVars, viewVars, llmVars, routeVars>>

transcribeAudioWithSpeechAPI(mimeType) ==
  /\ adCall.pc # "awaiting"
  /\ netCalls < MaxCalls
  /\ IF SpeechKeyGuard(speechKey)
     THEN /\ adCall' = FailedEarly("transcribeAudioWithSpeechAPI",
                                   RethrowSpeech(MissingSpeechKey))
          /\ UNCHANGED netCalls
     ELSE /\ adCall' = StartCall("transcribeAudioWithSpeechAPI", speechKey,
                                 <<mimeType, SpeechEncoding(mimeType),
                                   SpeechSampleRate(mimeType)>>)
          /\ netCalls' = netCalls + 1
  /\ UNCHANGED <<geminiKey, speechKey, genAIInstance,
                 fillerVars, recorderVars, pageVars, viewVars, llmVars, routeVars>>

\* the text of data.results: each first alternative followed by a space
SpeechTranscript(answer) == answer.text \o <<"sp">>

\* the adapter returning whatever text it built
BlankAccepted(text) == FALSE

\* if (!transcription || transcription.trim().length === 0)
TranscriptIsBlank(text) == IsBlank(text)

\* what transcribeAudioWithSpeechAPI makes of the settled fetch
SpeechOutcome(answer) ==
  IF answer.kind = "throws" THEN Err(RethrowSpeech(<<"NetworkError">>))
  ELSE IF answer.kind = "notOk"
       THEN Err(RethrowSpeech(<<"SpeechApiError", "HttpStatus">>))
  ELSE IF answer.kind = "noResults"
       THEN Err(RethrowSpeech(<<"NoRecognitionResults">>))
  ELSE IF TranscriptIsBlank(SpeechTranscript(answer))
       THEN Err(RethrowSpeech(<<"BlankRecognitionResult">>))
  ELSE Ok(Trim(SpeechTranscript(answer)))

\* fetch(...) settles
FetchSettles(answer) ==
  /\ adCall.pc = "awaiting"
  /\ adCall.fn = "transcribeAudioWithSpeechAPI"
  /\ adCall' = [adCall EXCEPT !.pc = "done", !.answer = answer,
                               !.result = SpeechOutcome(answer)]
  /\ UNCHANGED <<geminiKey, speechKey, genAIInstance, netCalls,
                 fillerVars, recorderVars, pageVars, viewVars, llmVars, routeVars>>

ClientAnswers == {[kind |-> "results", text |-> x] : x \in ModelTexts}
                   \cup {[kind |-> k, text |-> <<>>] : k \in {"noResults", "throws"}}

\* transcribeAudioWithSpeechAPI of the client-library adapter, up to
\* await client.recognize(request); it reads no API key
transcribeAudioWithSpeechClient(mimeType) ==
  /\ adCall.pc # "awaiting"
  /\ netCalls < MaxCalls
  /\ adCall' = StartCall("transcribeAudioWithSpeechClient", TRUE,
                         <<mimeType, getEncodingFromMimeType(mimeType),
                           ClientSampleRate(mimeType)>>)
  /\ netCalls' = netCalls + 1
  /\ UNCHANGED <<geminiKey, speechKey, genAIInstance,
                 fillerVars, recorderVars, pageVars, viewVars, llmVars, routeVars>>

\* client.recognize(request) settles: transcripts joined and trimmed
RecognizeSettles(answer) ==
  /\ adCall.pc = "awaiting"
  /\ adCall.fn = "transcribeAudioWithSpeechClient"
  /\ adCall' = [adCall EXCEPT
       !.pc = "done",
       !.answer = answer,
       !.result =
         IF answer.kind = "throws" THEN Err(RethrowSame(<<"ProviderError">>))
         ELSE IF answer.kind = "noResults"
              THEN Err(RethrowSame(<<"NoRecognitionResults">>))
         ELSE IF Trim(answer.text) = <<>>
              THEN Err(RethrowSame(<<"TranscriptEmpty">>))
         ELSE Ok(Trim(answer.text))]
  /\ UNCHANGED <<geminiKey, speechKey, genAIInstance, netCalls,
                 fillerVars, recorderVars, pageVars, viewVars, llmVars, routeVars>>

FillerIdle ==
  /\ fModule = "single"
  /\ fInput = <<>>
  /\ fPhase = "off"
  /\ fOut1 = NoResult
  /\ fOut2 = NoResult

AdaptersIdle ==
  /\ speechKey = TRUE
  /\ genAIInstance = FALSE
  /\ adCall = IdleCall
  /\ netCalls = 0

\* ------------------------------------------------------------- llm
\* base64 of a data URL without a comma: split(',')[1]
Undefined == <<"undefined">>

NoBlob == [type |-> "", size |-> 0]

NoEncoding == [settled |-> "pending", value |-> <<>>, err |-> <<>>]

IdleLlmCall ==
  [fn |-> "none", module |-> "latest", pc |-> "idle", calls |-> 0,
   transcript |-> <<>>, blob |-> NoBlob, read |-> "none", encoded |-> NoEncoding,
   payload |-> <<>>, generateCalls |-> 0, providerCalls |-> 0,
   answer |-> NoAnswer, result |-> NoResult]

\* ------------------------------------------------------------- api/transcribe
NoResponse == [status |-> 0, kind |-> "none", text |-> <<>>]

\* NextResponse.json({ transcription }, { status: 200 })
TranscriptionResponse(text) == [status |-> 200, kind |-> "transcription", text |-> text]

\* NextResponse.json({ error }, { status })
ErrorResponse(status, msg) == [status |-> status, kind |-> "error", text |-> msg]

\* what req.json() can make of a request: a body that is no JSON, the JSON
\* null, or an object whose audioData and mimeType are absent, "" or a string
RouteBodies ==
  {[kind |-> k, audioData |-> Undefined, mimeType |-> Undefined] :
     k \in {"invalidJson", "null"}}
  \cup {[kind |-> "object", audioData |-> a, mimeType |-> m] :
          a \in {Undefined, <<>>, <<"base64">>},
          m \in {Undefined, <<>>, <<"audio/webm">>}}

IdleRouteCall ==
  [pc |-> "idle", calls |-> 0, body |-> [kind |-> "none", audioData |-> Undefined,
                                         mimeType |-> Undefined],
   adapterCalls |-> 0, outcome |-> NoResult, response |-> NoResponse]

\* a check that lets every value through
NeverFalsy(v) == FALSE

\* !v of a value that is undefined or a string
Falsy(v) == v = Undefined \/ v = <<>>

\* await req.json() and const { audioData, mimeType } = body
BodyThrows(body) == body.kind \in {"invalidJson", "null"}

\* the message of what req.json() or the destructuring threw
BodyError(body) ==
  IF body.kind = "invalidJson" THEN <<"SyntaxError">> ELSE <<"TypeError">>

\* POST up to its first await of the adapter, or to its response
POST(body) ==
  /\ routeCall.pc # "awaitAdapter"
  /\ routeCall.calls < MaxCalls
  /\ LET call == [pc |-> "responded", calls |-> routeCall.calls + 1, body |-> body,
                  adapterCalls |-> 0, outcome |-> NoResult, response |-> NoResponse]
     IN routeCall' =
          IF BodyThrows(body)
          THEN [call EXCEPT !.response = ErrorResponse(500, BodyError(body))]
          ELSE IF Falsy(body.audioData) \/ Falsy(body.mimeType)
          THEN [call EXCEPT !.response = ErrorResponse(400, <<"AudioDataAndMimeTypeRequired">>)]
          ELSE IF SpeechKeyGuard(speechKey)
          THEN [call EXCEPT !.adapterCalls = 1,
                            !.outcome = Err(RethrowSpeech(MissingSpeechKey)),
                            !.response = ErrorResponse(500, RethrowSpeech(MissingSpeechKey))]
          ELSE [call EXCEPT !.pc = "awaitAdapter", !.adapterCalls = 1]
  /\ UNCHANGED <<fillerVars, adapterVars, recorderVars, pageVars, viewVars, llmVars>>

\* await transcribeAudioWithSpeechAPI(audioData, mimeType) settles
RouteAdapterSettles(answer) ==
  /\ routeCall.pc = "awaitAdapter"
  /\ LET outcome == SpeechOutcome(answer)
     IN routeCall' = [routeCall EXCEPT
          !.pc = "responded",
          !.outcome = outcome,
          !.response = IF outcome.ok THEN TranscriptionResponse(outcome.text)
                       ELSE ErrorResponse(500, outcome.err)]
  /\ UNCHANGED <<fillerVars, adapterVars, recorderVars, pageVars, viewVars, llmVars>>

\* ------------------------------------------------------------- recorder
Null == <<>>

\* the period of the recording timer, ms
TimerMs == 1000

\* ceilings tried for the maxDurationMs prop: below one period, a whole
\* number of periods, and one that is not
DurationChoices == {1, TimerMs * MaxTicks, TimerMs * MaxTicks + 1}

\* the updater stopping one period later
ForceStopLate(prev, maxMs) == prev + TimerMs > maxMs

\* the test of the timer's updater on the previous recordingTime
ForceStopDue(prev, maxMs) == prev + TimerMs >= maxMs

RECURSIVE BlobSize(_)
\* new Blob(chunks).size
BlobSize(chunks) ==
  IF chunks = <<>> THEN 0 ELSE Head(chunks).size + BlobSize(Tail(chunks))

\* event.data of the n-th dataavailable event of recording rec
Chunk(rec, n, size) == [rec |-> rec, n |-> n, size |-> size]

\* a handler that puts each chunk in front of those it has
PrependChunk(chunks, data) ==
  IF data.size > 0 THEN <<data>> \o chunks ELSE chunks

\* ondataavailable: if (event.data && event.data.size > 0) push
PushChunk(chunks, data) ==
  IF data.size > 0 THEN Append(chunks, data) ELSE chunks

\* selectedMimeType || 'audio/webm'
finalMimeType(selected) == IF selected = "" THEN "audio/webm" ELSE selected

\* new Blob(audioChunksRef.current, { type: finalMimeType }) of recording rec
AudioBlob(rec, chunks, selected) ==
  [rec |-> rec, size |-> BlobSize(chunks), chunks |-> chunks,
   type |-> finalMimeType(selected)]

\* onstop without its two checks
NeverEmpty(chunks) == FALSE

\* the two checks of onstop before the callback: no chunk, or a blob of size 0
RecordingIsEmpty(chunks) == Len(chunks) = 0 \/ BlobSize(chunks) = 0

MediaSupports == {"ok", "noMediaDevices", "noMediaRecorder"}

\* streamRef.current = null
NoStream == -1

\* the stream asked for by the mount effect; the stream of a click is
\* numbered by its recording
MountStream == 0

\* checkMediaSupport of the mount effect: the error it sets
checkMediaSupport(support) ==
  IF support = "noMediaDevices" THEN <<"Unsupported", "getUserMedia">>
  ELSE IF support = "noMediaRecorder" THEN <<"Unsupported", "MediaRecorder">>
  ELSE Null

\* the list startRecording probes, in its order
mimeTypes ==
  <<"audio/webm", "audio/mp4", "audio/mp3", "audio/wav", "audio/mpeg", "audio/ogg">>

\* what a browser may support: the probed types and one that is not probed
KnownTypes == {mimeTypes[i] : i \in DOMAIN mimeTypes} \cup {"audio/aac"}

\* the types a Chromium build records
UsualTypes == {"audio/webm", "audio/ogg"}

\* a loop that does not break at its first hit
SelectLastSupported(supported, i) ==
  LET hits == {j \in i..Len(mimeTypes) : mimeTypes[j] \in supported}
  IN  IF hits = {} THEN "" ELSE mimeTypes[CHOOSE j \in hits : \A k \in hits : k <= j]

RECURSIVE SelectMimeType(_, _)
\* the for loop with its break, from entry i of the list on
SelectMimeType(supported, i) ==
  IF i > Len(mimeTypes) THEN ""
  ELSE IF mimeTypes[i] \in supported THEN mimeTypes[i]
  ELSE SelectMimeType(supported, i + 1)

\* options = undefined
NoOptions == [mimeType |-> "", audioBitsPerSecond |-> 0]

\* const options = selectedMimeType ? {...} : undefined
OptionsFor(selected) ==
  IF selected # "" THEN [mimeType |-> selected, audioBitsPerSecond |-> 128000]
  ELSE NoOptions

\* <button disabled={isProcessing || !!error}>
ButtonDisabled == recProcessing \/ recError # Null

\* onClick={isRecording ? stopRecording : startRecording} leads to startRecording
StartEnabled == ~ButtonDisabled /\ ~isRecording

RecorderCore ==
  [isRecording |-> isRecording, isProcessing |-> recProcessing, error |-> recError,
   mediaRecorder |-> mediaRecorder, stopPending |-> stopPending]

SetRecorderCore(st) ==
  /\ isRecording' = st.isRecording
  /\ recProcessing' = st.isProcessing
  /\ recError' = st.error
  /\ mediaRecorder' = st.mediaRecorder
  /\ stopPending' = st.stopPending

\* stopRecording as closed over a render whose isRecording was closureIsRecording;
\* MediaRecorder.stop() throws InvalidStateError on an inactive recorder
stopRecording(closureIsRecording, st) ==
  IF st.mediaRecorder # "none" /\ closureIsRecording
  THEN IF st.mediaRecorder = "recording"
       THEN [st EXCEPT !.isProcessing = TRUE, !.mediaRecorder = "inactive",
                       !.stopPending = TRUE, !.isRecording = FALSE]
       ELSE [st EXCEPT !.error = <<"StopFailed">>, !.isProcessing = FALSE,
                       !.isRecording = FALSE]
  ELSE st

\* ------------------------------------------------------------- page and view
NoText == [rec |-> 0, body |-> <<>>]
Txt(rec, body) == [rec |-> rec, body |-> body]

Recordings == 1..MaxRecordings

\* lateCorrection: the correctTranscription call of a run whose Promise.all was
\* already rejected: "none" | "pending" | "fulfilled" | "rejected"
\* stages: the calls the run has made so far, in order
\* encoded: how blobToBase64 and the payload check ended: "pending" | "ok" | "failed"
\* transcribed: what transcribeAudioWithGemini gave: "pending" | "text" | "blank" | "threw"
\* chunks, type: the parts and the type of the blob the run was called with
NoRun == [pc |-> "none", size |-> 0, filler |-> NoResult, failedAt |-> "none",
          concurrent |-> FALSE, lateCorrection |-> "none",
          stages |-> <<>>, encoded |-> "pending", transcribed |-> "pending",
          chunks |-> <<>>, type |-> ""]

\* the calls of a run, in the order of the code
StageOrder == <<"encode", "transcribe", "filler", "correct">>

\* a run that goes on whatever the encoding gave
EncodeIgnored(ok) == FALSE

\* blobToBase64 rejected, or !base64Audio || base64Audio.length === 0
EncodeFailed(ok) == ~ok

InFlight(run) == run.pc \in {"encoding", "transcribing", "correcting"}

\* the last recording handed to handleRecordingComplete, 0 when there is none
LatestRun ==
  IF \E r \in Recordings : runs[r].pc # "none"
  THEN CHOOSE r \in Recordings :
         /\ runs[r].pc # "none"
         /\ \A q \in Recordings : runs[q].pc # "none" => q <= r
  ELSE 0

\* what the transcription provider may answer with
TranscriptBodies == {<<"e", "bar">>, <<"e", "bar", "ten", "k">>}
TranscriptAnswers ==
  {[kind |-> "text", body |-> b] : b \in TranscriptBodies \cup {<<"sp">>}}
    \cup {[kind |-> "throws", body |-> <<>>]}

\* what the text-generation provider may answer with
CorrectionAnswers ==
  {[kind |-> "text", body |-> b] : b \in {<<"k">>, <<"sp">>}}
    \cup {[kind |-> "throws", body |-> <<>>]}

\* a check of the model's output that lets a blank text through
CorrectedNeverBlank(text) == FALSE

\* !correctedText || correctedText.trim().length === 0
CorrectedIsBlank(text) == IsBlank(text)

\* correctTranscription from the moment generateText settles: its two checks,
\* its return value and its catch
CorrectionOutcome(answer) ==
  IF answer.kind = "throws"
  THEN Err(<<"CorrectionFailed">> \o RethrowGenerateText(<<"ProviderError">>))
  ELSE IF CorrectedIsBlank(answer.body)
  THEN Err(<<"CorrectionFailed", "ResultEmpty">>)
  ELSE Ok(Trim(answer.body))

\* setEditableTexts of an edit that writes the new text over both copies
EditBoth(texts, type, newText) == [transcription |-> newText, corrected |-> newText]

\* setEditableTexts(prev => ({...prev, [type]: newText}))
ApplyEdit(texts, type, newText) == [texts EXCEPT ![type] = newText]

\* TranscriptionResult: the render-time copy of the transcription prop and the
\* effect on [correctedText]
ViewSync(view, oldCorrected, newTranscription, newCorrected) ==
  [transcription |-> newTranscription,
   corrected |->
     IF /\ newCorrected # oldCorrected
        /\ newCorrected.body # <<>>
        /\ newCorrected # view.corrected
     THEN newCorrected
     ELSE view.corrected]

hasContent == ~IsBlank(transcription.body)
isLoading == isTranscribing \/ isProcessing
CardsShown == hasContent /\ ~isLoading

\* the texts in the two text areas of the result view
ShownTexts ==
  IF CardsShown THEN {editableTexts.transcription, editableTexts.corrected} ELSE {}

\* the state of Home after the batched setters, and the render that follows
PageSet(t, f, c, it, ip, em, rs) ==
  /\ transcription' = t
  /\ fillerRemovedText' = f
  /\ correctedText' = c
  /\ isTranscribing' = it
  /\ isProcessing' = ip
  /\ errorMessage' = em
  /\ runs' = rs
  /\ editableTexts' = ViewSync(editableTexts, correctedText, t, c)
  /\ typedTexts' = [transcription |-> IF t # transcription THEN NoText
                                      ELSE typedTexts.transcription,
                    corrected |-> IF c # correctedText THEN NoText
                                  ELSE typedTexts.corrected]
  /\ UNCHANGED apiKeyError

Returned(rs, r, stage) ==
  [rs EXCEPT ![r].pc = "returned", ![r].failedAt = stage]

\* the run r after its await of blobToBase64
Encoded(rs, r, ok) ==
  [rs EXCEPT ![r].encoded = IF ok THEN "ok" ELSE "failed"]

\* the run r after its await of transcribeAudioWithGemini
Transcribed(rs, r, answer) ==
  [rs EXCEPT ![r].transcribed = IF answer.kind = "throws" THEN "threw"
                                ELSE IF IsBlank(answer.body) THEN "blank"
                                ELSE "text"]

\* the run r calling the functions named in called
Calling(rs, r, called) == [rs EXCEPT ![r].stages = @ \o called]

\* the outer catch and finally of handleRecordingComplete
FailTranscription(rs, r, msg, stage) ==
  PageSet(NoText, fillerRemovedText, correctedText, FALSE, isProcessing,
          msg, Returned(rs, r, stage))

\* handleRecordingComplete up to its first await
handleRecordingComplete(blob) ==
  LET r == blob.rec
      begun == [NoRun EXCEPT
                  !.size = blob.size,
                  !.chunks = blob.chunks,
                  !.type = blob.type,
                  !.concurrent = \E q \in Recordings : InFlight(runs[q])]
  IN  IF blob.size = 0
      THEN PageSet(transcription, fillerRemovedText, correctedText,
                   isTranscribing, isProcessing, <<"NoValidAudio">>,
                   [runs EXCEPT ![r] = [begun EXCEPT !.pc = "returned",
                                                     !.failedAt = "validate"]])
      ELSE IF apiKeyError
      THEN PageSet(NoText, NoText, NoText, FALSE, isProcessing,
                   <<"MissingGeminiKey">>,
                   [runs EXCEPT ![r] = [begun EXCEPT !.pc = "returned",
                                                     !.failedAt = "key"]])
      ELSE PageSet(NoText, NoText, NoText, TRUE, isProcessing, Null,
                   [runs EXCEPT ![r] = [begun EXCEPT !.pc = "encoding",
                                                     !.stages = <<"encode">>]])

AppIdle ==
  /\ maxDurationMs = TimerMs * MaxTicks
  /\ isRecording = FALSE
  /\ recordingTime = 0
  /\ recProcessing = FALSE
  /\ recError = Null
  /\ startPc = "idle"
  /\ mediaRecorder = "none"
  /\ stopPending = FALSE
  /\ audioChunks = <<>>
  /\ chunkEvents = <<>>
  /\ recCount = 0
  /\ liveStreams = {}
  /\ mediaSupport = "ok"
  /\ mounted = TRUE
  /\ hasPermission = "unknown"
  /\ streamRef = NoStream
  /\ mountPc = "done"
  /\ recorderModule = "release"
  /\ supportedTypes = UsualTypes
  /\ selectedMimeType = ""
  /\ recorderOptions = NoOptions
  /\ apiKeyError = ~geminiKey
  /\ transcription = NoText
  /\ fillerRemovedText = NoText
  /\ correctedText = NoText
  /\ isTranscribing = FALSE
  /\ isProcessing = FALSE
  /\ errorMessage = Null
  /\ runs = [r \in Recordings |-> NoRun]
  /\ editableTexts = [transcription |-> NoText, corrected |-> NoText]
  /\ typedTexts = [transcription |-> NoText, corrected |-> NoText]
  /\ llmCall = IdleLlmCall
  /\ routeCall = IdleRouteCall

\* the state after the first render and the mount effects
InitApp ==
  /\ geminiKey \in BOOLEAN
  /\ AdaptersIdle
  /\ FillerIdle
  /\ maxDurationMs \in DurationChoices
  /\ isRecording = FALSE
  /\ recordingTime = 0
  /\ recProcessing = FALSE
  /\ mediaSupport \in MediaSupports
  /\ mounted = TRUE
  /\ hasPermission = "unknown"
  /\ streamRef = NoStream
  /\ mountPc = "done"
  /\ recorderModule = "release"
  /\ supportedTypes = UsualTypes
  /\ selectedMimeType = ""
  /\ recorderOptions = NoOptions
  /\ recError = checkMediaSupport(mediaSupport)
  /\ startPc = "idle"
  /\ mediaRecorder = "none"
  /\ stopPending = FALSE
  /\ audioChunks = <<>>
  /\ chunkEvents = <<>>
  /\ recCount = 0
  /\ liveStreams = {}
  /\ apiKeyError = ~geminiKey
  /\ transcription = NoText
  /\ fillerRemovedText = NoText
  /\ correctedText = NoText
  /\ isTranscribing = FALSE
  /\ isProcessing = FALSE
  /\ errorMessage = Null
  /\ runs = [r \in Recordings |-> NoRun]
  /\ editableTexts = [transcription |-> NoText, corrected |-> NoText]
  /\ typedTexts = [transcription |-> NoText, corrected |-> NoText]
  /\ llmCall = IdleLlmCall
  /\ routeCall = IdleRouteCall

otherVars == <<fillerVars, adapterVars, keepVars, llmVars, routeVars>>

\* new MediaRecorder(stream, options) after the probe of the list
BuildRecorder ==
  /\ selectedMimeType' = SelectMimeType(supportedTypes, 1)
  /\ recorderOptions' = OptionsFor(SelectMimeType(supportedTypes, 1))
  /\ mediaRecorder' = "recording"
  /\ audioChunks' = <<>>
  /\ chunkEvents' = <<>>
  /\ UNCHANGED supportedTypes

\* a click on the button while it shows the microphone: startRecording up to
\* await getUserMedia, or to its catch when there is no getUserMedia to call
StartClick ==
  /\ mounted
  /\ StartEnabled
  /\ recCount < MaxRecordings
  /\ IF mediaSupport = "noMediaDevices"
     THEN /\ recProcessing' = FALSE
          /\ recError' = <<"StartFailed", "Unsupported">>
          /\ UNCHANGED <<recCount, startPc>>
     ELSE /\ recCount' = recCount + 1
          /\ recProcessing' = TRUE
          /\ recError' = Null
          /\ startPc' = "awaitingMic"
  /\ UNCHANGED <<maxDurationMs, isRecording, recordingTime, mediaRecorder, stopPending,
                 audioChunks, chunkEvents, liveStreams, mediaSupport, mounted,
                 pageVars, viewVars, otherVars, formatVars>>

\* what getUserMedia and the construction of the recorder can do
MicOutcomes == {"granted", "denied", "recorderThrows"}

\* the rest of startRecording once getUserMedia has settled: the recorder
\* started, or the catch block reached without or with a stream in hand
StartOutcome(outcome, support) ==
  IF outcome = "denied" THEN "denied"
  ELSE IF outcome = "recorderThrows" \/ support = "noMediaRecorder" THEN "recorderThrows"
  ELSE "granted"

\* getUserMedia settles; the rest of startRecording. The state setters do
\* nothing once the component is unmounted
GetUserMediaSettles(outcome) ==
  /\ startPc = "awaitingMic"
  /\ startPc' = "idle"
  /\ recProcessing' = IF mounted THEN FALSE ELSE recProcessing
  /\ LET reached == StartOutcome(outcome, mediaSupport)
     IN  IF reached = "granted"
         THEN /\ BuildRecorder
              /\ isRecording' = IF mounted THEN TRUE ELSE isRecording
              /\ liveStreams' = liveStreams \cup {recCount}
              /\ UNCHANGED recError
         ELSE IF reached = "recorderThrows"
         THEN /\ liveStreams' = liveStreams \cup {recCount}
              /\ recError' = IF mounted THEN <<"StartFailed", "RecorderFailed">>
                             ELSE recError
              /\ UNCHANGED <<mediaRecorder, audioChunks, chunkEvents, isRecording,
                             formatVars>>
         ELSE /\ recError' = IF mounted THEN <<"StartFailed", "NotAllowed">> ELSE recError
              /\ UNCHANGED <<mediaRecorder, audioChunks, chunkEvents, isRecording,
                             liveStreams, formatVars>>
  /\ UNCHANGED <<maxDurationMs, recordingTime, stopPending, recCount, mediaSupport,
                 mounted, pageVars, viewVars, otherVars>>

\* mediaRecorder.ondataavailable, during the recording or as the last event
\* before stop
DataAvailable(size) ==
  /\ mediaRecorder = "recording" \/ stopPending
  /\ Len(chunkEvents) < MaxChunks
  /\ LET data == Chunk(recCount, Len(chunkEvents) + 1, size)
     IN /\ chunkEvents' = Append(chunkEvents, data)
        /\ audioChunks' = PushChunk(audioChunks, data)
  /\ UNCHANGED <<maxDurationMs, isRecording, recordingTime, recProcessing, recError,
                 startPc, mediaRecorder, stopPending, recCount, liveStreams,
                 mediaSupport, mounted, pageVars, viewVars, otherVars, formatVars>>

\* the interval callback; its stopRecording belongs to the render in which
\* isRecording had become true. The interval is cleared at unmount
Tick ==
  /\ mounted
  /\ isRecording
  /\ IF ForceStopDue(recordingTime, maxDurationMs)
     THEN /\ SetRecorderCore(stopRecording(TRUE, RecorderCore))
          /\ UNCHANGED recordingTime
     ELSE /\ recordingTime' = recordingTime + TimerMs
          /\ UNCHANGED <<isRecording, recProcessing, recError, mediaRecorder, stopPending>>
  /\ UNCHANGED <<maxDurationMs, startPc, audioChunks, chunkEvents, recCount, liveStreams,
                 mediaSupport, mounted, pageVars, viewVars, otherVars, formatVars>>

\* a click on the button while it shows the square
StopClick ==
  /\ mounted
  /\ ~ButtonDisabled
  /\ isRecording
  /\ SetRecorderCore(stopRecording(isRecording, RecorderCore))
  /\ UNCHANGED <<maxDurationMs, recordingTime, startPc, audioChunks, chunkEvents,
                 recCount, liveStreams, mediaSupport, mounted, pageVars, viewVars,
                 otherVars, formatVars>>

\* the recorder fails: it goes inactive and its stop event is queued;
\* mediaRecorder.onerror runs the stopRecording of the render that started
\* the recording, in which isRecording was false
MediaError ==
  /\ mediaRecorder = "recording"
  /\ SetRecorderCore(stopRecording(FALSE,
       [RecorderCore EXCEPT !.mediaRecorder = "inactive", !.stopPending = TRUE,
                            !.error = IF mounted THEN <<"RecordingError">> ELSE @]))
  /\ UNCHANGED <<maxDurationMs, recordingTime, startPc, audioChunks, chunkEvents,
                 recCount, liveStreams, mediaSupport, mounted, pageVars, viewVars,
                 otherVars, formatVars>>

\* mediaRecorder.onstop; after the unmount only its work on the stream is left
OnStop ==
  /\ stopPending
  /\ stopPending' = FALSE
  /\ liveStreams' = liveStreams \ {recCount}
  /\ IF mounted
     THEN /\ IF RecordingIsEmpty(audioChunks)
             THEN /\ recError' = IF Len(audioChunks) = 0 THEN <<"NoRecordingData">>
                                 ELSE <<"RecordingIsEmpty">>
                  /\ UNCHANGED <<pageVars, viewVars>>
             ELSE /\ handleRecordingComplete(AudioBlob(recCount, audioChunks,
                                                        selectedMimeType))
                  /\ UNCHANGED recError
          /\ recProcessing' = FALSE
          /\ recordingTime' = 0
     ELSE UNCHANGED <<recError, recProcessing, recordingTime, pageVars, viewVars>>
  /\ UNCHANGED <<maxDurationMs, isRecording, startPc, mediaRecorder, audioChunks,
                 chunkEvents, recCount, mediaSupport, mounted, otherVars, formatVars>>

\* the page goes away: the cleanup of the timer effect clears the interval,
\* and nothing else of the recorder runs
Unmount ==
  /\ mounted
  /\ mounted' = FALSE
  /\ UNCHANGED <<maxDurationMs, isRecording, recordingTime, recProcessing, recError,
                 startPc, mediaRecorder, stopPending, audioChunks, chunkEvents,
                 recCount, liveStreams, mediaSupport, pageVars, viewVars, otherVars, formatVars>>

\* --------------------------------------------- the earlier recorder
\* the recorder kept further down in recorder/AudioRecorder.tsx: no error
\* state, no check of the browser, alert() for its failures

\* const mimeTypes of the earlier recorder
earlierMimeTypes == <<"audio/mp4", "audio/mp3", "audio/webm", "audio/wav", "audio/mpeg">>

RECURSIVE EarlierSelectMimeType(_, _)
\* its for loop with its break, from entry i of the list on
EarlierSelectMimeType(supported, i) ==
  IF i > Len(earlierMimeTypes) THEN ""
  ELSE IF earlierMimeTypes[i] \in supported THEN earlierMimeTypes[i]
  ELSE EarlierSelectMimeType(supported, i + 1)

\* const options = selectedMimeType ? { mimeType: selectedMimeType } : undefined
EarlierOptionsFor(selected) ==
  IF selected # "" THEN [mimeType |-> selected, audioBitsPerSecond |-> 0]
  ELSE NoOptions

\* <button disabled={isProcessing}>
EarlierButtonDisabled == recProcessing

\* the state after the first render of the earlier recorder
InitEarlier ==
  /\ geminiKey = TRUE
  /\ AdaptersIdle
  /\ FillerIdle
  /\ maxDurationMs \in DurationChoices
  /\ isRecording = FALSE
  /\ recordingTime = 0
  /\ recProcessing = FALSE
  /\ mediaSupport \in MediaSupports
  /\ mounted = TRUE
  /\ hasPermission = "unknown"
  /\ streamRef = NoStream
  /\ mountPc = "done"
  /\ recorderModule = "earlier"
  /\ supportedTypes = UsualTypes
  /\ selectedMimeType = ""
  /\ recorderOptions = NoOptions
  /\ recError = Null
  /\ startPc = "idle"
  /\ mediaRecorder = "none"
  /\ stopPending = FALSE
  /\ audioChunks = <<>>
  /\ chunkEvents = <<>>
  /\ recCount = 0
  /\ liveStreams = {}
  /\ apiKeyError = ~geminiKey
  /\ transcription = NoText
  /\ fillerRemovedText = NoText
  /\ correctedText = NoText
  /\ isTranscribing = FALSE
  /\ isProcessing = FALSE
  /\ errorMessage = Null
  /\ runs = [r \in Recordings |-> NoRun]
  /\ editableTexts = [transcription |-> NoText, corrected |-> NoText]
  /\ typedTexts = [transcription |-> NoText, corrected |-> NoText]
  /\ llmCall = IdleLlmCall
  /\ routeCall = IdleRouteCall

\* a click on the button while it shows the microphone: startRecording up to
\* await getUserMedia; without navigator.mediaDevices the call throws into the
\* catch, which clears isProcessing and alerts
EarlierStartClick ==
  /\ mounted
  /\ ~EarlierButtonDisabled
  /\ ~isRecording
  /\ startPc = "idle"
  /\ recCount < MaxRecordings
  /\ IF mediaSupport = "noMediaDevices"
     THEN /\ recProcessing' = FALSE
          /\ UNCHANGED <<recCount, startPc>>
     ELSE /\ recCount' = recCount + 1
          /\ recProcessing' = TRUE
          /\ startPc' = "awaitingMic"
  /\ UNCHANGED <<maxDurationMs, isRecording, recordingTime, recError, mediaRecorder,
                 stopPending, audioChunks, chunkEvents, liveStreams, mediaSupport,
                 mounted, pageVars, viewVars, otherVars, formatVars>>

\* getUserMedia settles; the rest of startRecording of the earlier recorder
EarlierGetUserMediaSettles(outcome) ==
  /\ recorderModule = "earlier"
  /\ startPc = "awaitingMic"
  /\ startPc' = "idle"
  /\ recProcessing' = IF mounted THEN FALSE ELSE recProcessing
  /\ LET reached == StartOutcome(outcome, mediaSupport)
     IN  IF reached = "granted"
         THEN /\ selectedMimeType' = EarlierSelectMimeType(supportedTypes, 1)
              /\ recorderOptions' =
                   EarlierOptionsFor(EarlierSelectMimeType(supportedTypes, 1))
              /\ mediaRecorder' = "recording"
              /\ audioChunks' = <<>>
              /\ chunkEvents' = <<>>
              /\ isRecording' = IF mounted THEN TRUE ELSE isRecording
              /\ liveStreams' = liveStreams \cup {recCount}
              /\ UNCHANGED supportedTypes
         ELSE IF reached = "recorderThrows"
         THEN /\ liveStreams' = liveStreams \cup {recCount}
              /\ UNCHANGED <<mediaRecorder, audioChunks, chunkEvents, isRecording,
                             formatVars>>
         ELSE UNCHANGED <<mediaRecorder, audioChunks, chunkEvents, isRecording,
                          liveStreams, formatVars>>
  /\ UNCHANGED <<maxDurationMs, recordingTime, recError, stopPending, recCount,
                 mediaSupport, mounted, pageVars, viewVars, otherVars>>

\* mediaRecorder.onstop of the earlier recorder: on a blob of size 0 it alerts,
\* clears isProcessing and returns
EarlierOnStop ==
  /\ recorderModule = "earlier"
  /\ stopPending
  /\ stopPending' = FALSE
  /\ LET audioBlob == AudioBlob(recCount, audioChunks, selectedMimeType)
     IN  IF audioBlob.size = 0
         THEN /\ recProcessing' = IF mounted THEN FALSE ELSE recProcessing
              /\ UNCHANGED <<recordingTime, liveStreams, pageVars, viewVars>>
         ELSE /\ IF mounted
                 THEN /\ handleRecordingComplete(audioBlob)
                      /\ recProcessing' = FALSE
                      /\ recordingTime' = 0
                 ELSE UNCHANGED <<recProcessing, recordingTime, pageVars, viewVars>>
              /\ liveStreams' = liveStreams \ {recCount}
  /\ UNCHANGED <<maxDurationMs, isRecording, recError, startPc, mediaRecorder,
                 audioChunks, chunkEvents, recCount, mediaSupport, mounted, otherVars,
                 formatVars>>

\* --------------------------------------------- the stream-keeping recorder
\* the recorder that asks for the microphone at mount and keeps the stream
\* between recordings

\* <button disabled={isProcessing || (hasPermission === false)}>
KeepButtonDisabled == recProcessing \/ hasPermission = "no"

\* the state after the first render of the stream-keeping recorder and the
\* synchronous part of its mount effect
InitKeep ==
  /\ geminiKey \in BOOLEAN
  /\ AdaptersIdle
  /\ FillerIdle
  /\ maxDurationMs \in DurationChoices
  /\ isRecording = FALSE
  /\ recordingTime = 0
  /\ recProcessing = FALSE
  /\ mediaSupport \in MediaSupports
  /\ mounted = TRUE
  /\ recError = checkMediaSupport(mediaSupport)
  /\ hasPermission = IF mediaSupport = "ok" THEN "unknown" ELSE "no"
  /\ mountPc = IF mediaSupport = "ok" THEN "awaitingMic" ELSE "done"
  /\ recorderModule = "keep"
  /\ supportedTypes = UsualTypes
  /\ selectedMimeType = ""
  /\ recorderOptions = NoOptions
  /\ streamRef = NoStream
  /\ startPc = "idle"
  /\ mediaRecorder = "none"
  /\ stopPending = FALSE
  /\ audioChunks = <<>>
  /\ chunkEvents = <<>>
  /\ recCount = 0
  /\ liveStreams = {}
  /\ apiKeyError = ~geminiKey
  /\ transcription = NoText
  /\ fillerRemovedText = NoText
  /\ correctedText = NoText
  /\ isTranscribing = FALSE
  /\ isProcessing = FALSE
  /\ errorMessage = Null
  /\ runs = [r \in Recordings |-> NoRun]
  /\ editableTexts = [transcription |-> NoText, corrected |-> NoText]
  /\ typedTexts = [transcription |-> NoText, corrected |-> NoText]
  /\ llmCall = IdleLlmCall
  /\ routeCall = IdleRouteCall

\* the getUserMedia of the mount effect settles
KeepMountSettles(granted) ==
  /\ mountPc = "awaitingMic"
  /\ mountPc' = "done"
  /\ IF granted
     THEN /\ streamRef' = MountStream
          /\ liveStreams' = liveStreams \cup {MountStream}
          /\ hasPermission' = IF mounted THEN "yes" ELSE hasPermission
          /\ UNCHANGED recError
     ELSE /\ recError' = IF mounted THEN <<"PermissionDenied">> ELSE recError
          /\ hasPermission' = IF mounted THEN "no" ELSE hasPermission
          /\ UNCHANGED <<streamRef, liveStreams>>
  /\ UNCHANGED <<maxDurationMs, isRecording, recordingTime, recProcessing, startPc,
                 mediaRecorder, stopPending, audioChunks, chunkEvents, recCount,
                 mediaSupport, mounted, recorderModule, formatVars, pageVars,
                 viewVars, fillerVars, adapterVars, llmVars, routeVars>>

\* startRecording of the stream-keeping recorder up to its first await or to
\* its end: with a kept stream it runs to the end at once
KeepStartRecording(recorderThrows) ==
  /\ recCount < MaxRecordings
  /\ recCount' = recCount + 1
  /\ IF streamRef # NoStream
     THEN IF recorderThrows \/ mediaSupport = "noMediaRecorder"
          THEN /\ recProcessing' = FALSE
               /\ recError' = <<"StartFailed", "RecorderFailed">>
               /\ UNCHANGED <<mediaRecorder, audioChunks, chunkEvents, isRecording, startPc,
                              formatVars>>
          ELSE /\ BuildRecorder
               /\ isRecording' = TRUE
               /\ recProcessing' = FALSE
               /\ recError' = Null
               /\ UNCHANGED startPc
     ELSE IF mediaSupport = "noMediaDevices"
     THEN /\ recProcessing' = FALSE
          /\ recError' = <<"StartFailed", "Unsupported">>
          /\ UNCHANGED <<mediaRecorder, audioChunks, chunkEvents, isRecording, startPc,
                         formatVars>>
     ELSE /\ recProcessing' = TRUE
          /\ recError' = Null
          /\ startPc' = "awaitingMic"
          /\ UNCHANGED <<mediaRecorder, audioChunks, chunkEvents, isRecording, formatVars>>
  /\ UNCHANGED <<maxDurationMs, recordingTime, stopPending, liveStreams, mediaSupport,
                 mounted, keepVars, pageVars, viewVars, fillerVars, adapterVars,
                 llmVars, routeVars>>

\* a click on the button while it shows the microphone
KeepStartClick(recorderThrows) ==
  /\ mounted
  /\ ~KeepButtonDisabled
  /\ ~isRecording
  /\ startPc = "idle"
  /\ KeepStartRecording(recorderThrows)

\* a click on the retry link shown while hasPermission is false; a retry
\* during a recording or a start is left out
RetryClick(recorderThrows) ==
  /\ mounted
  /\ hasPermission = "no"
  /\ ~isRecording /\ ~recProcessing /\ startPc = "idle" /\ ~stopPending
  /\ KeepStartRecording(recorderThrows)

\* the getUserMedia of startRecording settles; the rest of startRecording.
\* saysPermission: the message of the rejection contains 'permission'
KeepGetUserMediaSettles(outcome, saysPermission) ==
  /\ startPc = "awaitingMic"
  /\ startPc' = "idle"
  /\ recProcessing' = IF mounted THEN FALSE ELSE recProcessing
  /\ LET reached == StartOutcome(outcome, mediaSupport)
     IN  IF reached = "denied"
         THEN /\ recError' = IF ~mounted THEN recError
                             ELSE IF saysPermission THEN <<"PermissionDenied">>
                             ELSE <<"StartFailed", "NotAllowed">>
              /\ hasPermission' = IF mounted /\ saysPermission THEN "no" ELSE hasPermission
              /\ UNCHANGED <<mediaRecorder, audioChunks, chunkEvents, isRecording,
                             liveStreams, streamRef, formatVars>>
         ELSE /\ streamRef' = recCount
              /\ liveStreams' = liveStreams \cup {recCount}
              /\ hasPermission' = IF mounted THEN "yes" ELSE hasPermission
              /\ IF reached = "granted"
                 THEN /\ BuildRecorder
                      /\ isRecording' = IF mounted THEN TRUE ELSE isRecording
                      /\ UNCHANGED recError
                 ELSE /\ recError' = IF mounted THEN <<"StartFailed", "RecorderFailed">>
                                     ELSE recError
                      /\ UNCHANGED <<mediaRecorder, audioChunks, chunkEvents, isRecording,
                                     formatVars>>
  /\ UNCHANGED <<maxDurationMs, recordingTime, stopPending, recCount, mediaSupport,
                 mounted, mountPc, recorderModule, pageVars, viewVars, fillerVars,
                 adapterVars, llmVars, routeVars>>

\* a click on the button while it shows the square
KeepStopClick ==
  /\ mounted
  /\ ~KeepButtonDisabled
  /\ isRecording
  /\ SetRecorderCore(stopRecording(isRecording, RecorderCore))
  /\ UNCHANGED <<maxDurationMs, recordingTime, startPc, audioChunks, chunkEvents,
                 recCount, liveStreams, mediaSupport, mounted, pageVars, viewVars,
                 otherVars, formatVars>>

\* mediaRecorder.onstop of the stream-keeping recorder: the stream is kept
KeepOnStop ==
  /\ stopPending
  /\ stopPending' = FALSE
  /\ IF mounted
     THEN /\ IF RecordingIsEmpty(audioChunks)
             THEN /\ recError' = IF Len(audioChunks) = 0 THEN <<"NoRecordingData">>
                                 ELSE <<"RecordingIsEmpty">>
                  /\ UNCHANGED <<pageVars, viewVars>>
             ELSE /\ handleRecordingComplete(AudioBlob(recCount, audioChunks,
                                                        selectedMimeType))
                  /\ UNCHANGED recError
          /\ recProcessing' = FALSE
          /\ recordingTime' = 0
     ELSE UNCHANGED <<recError, recProcessing, recordingTime, pageVars, viewVars>>
  /\ UNCHANGED <<maxDurationMs, isRecording, startPc, mediaRecorder, audioChunks,
                 chunkEvents, recCount, liveStreams, mediaSupport, mounted, otherVars, formatVars>>

\* the page goes away: the cleanups of the two effects stop the tracks of
\* streamRef.current and clear the interval
KeepUnmount ==
  /\ mounted
  /\ mounted' = FALSE
  /\ liveStreams' = liveStreams \ {streamRef}
  /\ streamRef' = NoStream
  /\ UNCHANGED <<maxDurationMs, isRecording, recordingTime, recProcessing, recError,
                 startPc, mediaRecorder, stopPending, audioChunks, chunkEvents,
                 recCount, mediaSupport, hasPermission, mountPc, recorderModule,
                 formatVars, pageVars, viewVars, fillerVars, adapterVars, llmVars, routeVars>>

\* blobToBase64 settles inside transcribeAudio; on success the adapter is called
EncodeSettles(r, ok) ==
  /\ mounted
  /\ runs[r].pc = "encoding"
  /\ IF EncodeFailed(ok)
     THEN FailTranscription(Encoded(runs, r, ok), r,
                            <<"TranscriptionFailed", "EncodeFailed">>, "encode")
     ELSE IF GeminiTranscribeKeyGuard(geminiKey)
     THEN FailTranscription(Calling(Encoded(runs, r, ok), r, <<"transcribe">>), r,
                            <<"TranscriptionFailed">> \o
                              RethrowSame(MissingGeminiKeyTranscribe), "key")
     ELSE PageSet(transcription, fillerRemovedText, correctedText, isTranscribing,
                  isProcessing, errorMessage,
                  [Calling(Encoded(runs, r, ok), r, <<"transcribe">>)
                     EXCEPT ![r].pc = "transcribing"])
  /\ UNCHANGED <<recorderVars, otherVars>>

\* transcribeAudioWithGemini settles; with a text, the handler goes on to
\* Promise.all([removeFillerSounds(text), correctTranscription(text, 0)])
TranscribeSettles(r, answer) ==
  /\ mounted
  /\ runs[r].pc = "transcribing"
  /\ IF answer.kind = "throws"
     THEN FailTranscription(Transcribed(runs, r, answer), r,
                            <<"TranscriptionFailed", "ProviderError">>, "transcribe")
     ELSE IF IsBlank(answer.body)
     THEN FailTranscription(Transcribed(runs, r, answer), r,
                            <<"TranscriptionFailed", "ResultEmpty">>, "transcribe")
     ELSE LET text == Trim(answer.body)
              filler == removeFillerSounds(text)
              called == Calling(Transcribed(runs, r, answer), r, <<"filler", "correct">>)
          IN  IF ~filler.ok
              THEN PageSet(Txt(r, text), fillerRemovedText, correctedText, FALSE, FALSE,
                           filler.err,
                           [Returned(called, r, "filler")
                              EXCEPT ![r].lateCorrection = "pending"])
              ELSE PageSet(Txt(r, text), fillerRemovedText, correctedText,
                           isTranscribing, TRUE, errorMessage,
                           [called EXCEPT ![r].pc = "correcting", ![r].filler = filler])
  /\ UNCHANGED <<recorderVars, otherVars>>

\* generateText settles inside correctTranscription; Promise.all settles with it
CorrectionSettles(r, answer) ==
  /\ mounted
  /\ runs[r].pc = "correcting"
  /\ LET corrected == CorrectionOutcome(answer)
     IN  IF ~corrected.ok
         THEN PageSet(transcription, fillerRemovedText, correctedText, FALSE, FALSE,
                      corrected.err, Returned(runs, r, "correct"))
         ELSE PageSet(transcription, Txt(r, runs[r].filler.text), Txt(r, corrected.text),
                      FALSE, FALSE, errorMessage, Returned(runs, r, "none"))
  /\ UNCHANGED <<recorderVars, otherVars>>

\* a late settlement that reports its failure on the page
LateCorrectionReported(r, answer) ==
  /\ mounted
  /\ runs[r].lateCorrection = "pending"
  /\ LET corrected == CorrectionOutcome(answer)
         settled == [runs EXCEPT ![r].lateCorrection =
                       IF corrected.ok THEN "fulfilled" ELSE "rejected"]
     IN  PageSet(transcription, fillerRemovedText, correctedText, isTranscribing,
                 isProcessing, IF corrected.ok THEN errorMessage ELSE corrected.err,
                 settled)
  /\ UNCHANGED <<recorderVars, otherVars>>

\* the correctTranscription call of a run whose removeFillerSounds had failed
\* settles: Promise.all is rejected already and nothing of the page runs
LateCorrectionSettles(r, answer) ==
  /\ mounted
  /\ runs[r].lateCorrection = "pending"
  /\ LET corrected == CorrectionOutcome(answer)
     IN  runs' = [runs EXCEPT ![r].lateCorrection =
                    IF corrected.ok THEN "fulfilled" ELSE "rejected"]
  /\ UNCHANGED <<apiKeyError, transcription, fillerRemovedText, correctedText,
                 isTranscribing, isProcessing, errorMessage, viewVars,
                 recorderVars, otherVars>>

\* the recorder hands a recording to the page: onRecordingComplete(audioBlob)
Deliver(size) ==
  /\ mounted
  /\ recCount < MaxRecordings
  /\ recCount' = recCount + 1
  /\ handleRecordingComplete(AudioBlob(recCount + 1,
                                       PushChunk(<<>>, Chunk(recCount + 1, 1, size)),
                                       "audio/webm"))
  /\ UNCHANGED <<maxDurationMs, isRecording, recordingTime, recProcessing, recError,
                 startPc, mediaRecorder, stopPending, audioChunks, chunkEvents,
                 liveStreams, mediaSupport, mounted, formatVars, otherVars>>

\* the user types in one of the two text areas; the render that follows
\* copies the transcription prop over an edited transcription
handleTextAreaChange(type) ==
  /\ mounted
  /\ CardsShown
  /\ LET edited == ApplyEdit(editableTexts, type,
                             Txt(editableTexts[type].rec, <<"edited">>))
     IN  /\ editableTexts' = [edited EXCEPT !.transcription = transcription]
         /\ typedTexts' = [typedTexts EXCEPT ![type] = edited[type]]
  /\ UNCHANGED <<recorderVars, pageVars, otherVars>>

\* ------------------------------------------------------------- llm calls
\* the two transcribeAudio / blobToBase64 pairs of llm.ts
LlmModules == {"latest", "earlier"}

\* the transcripts correctTranscription is called with
LlmTranscripts == {<<>>, <<"sp">>, <<"e", "bar">>}

\* what generateText may settle with
LlmAnswers ==
  {[kind |-> "text", text |-> b] : b \in {<<>>, <<"sp">>, <<"k">>, <<"sp", "k", "sp">>}}
    \cup {[kind |-> "throws", text |-> <<>>]}

\* the blobs transcribeAudio is called with
LlmBlobs == {[type |-> t, size |-> n] : t \in {"", "audio/webm"}, n \in {0, 1}}

\* what the FileReader ends with: a data URL, a string without a comma, a
\* result that is no string, or an error event
ReadResults == {"dataUrl", "noComma", "notString", "error"}

Resolved(value) == [settled |-> "resolved", value |-> value, err |-> <<>>]
Rejected(msg) == [settled |-> "rejected", value |-> <<>>, err |-> msg]

\* reader.result.split(',')[1] for the data URL of the blob
DataUrlPayload(blob) == IF blob.size = 0 THEN <<>> ELSE <<"QUJD">>

\* if (!base64) of blobToBase64; the earlier blobToBase64 has no such test
PayloadRejected(module, base64) ==
  module = "latest" /\ base64 \in {<<>>, Undefined}

\* blobToBase64: how its promise settles
blobToBase64(module, read, blob) ==
  IF read = "error" THEN Rejected(<<"ReadError">>)
  ELSE IF read = "notString" THEN Rejected(<<"ResultNotString">>)
  ELSE LET base64 == IF read = "noComma" THEN Undefined ELSE DataUrlPayload(blob)
       IN  IF PayloadRejected(module, base64) THEN Rejected(<<"BadBase64">>)
           ELSE Resolved(base64)

NewLlmCall(fn) == [IdleLlmCall EXCEPT !.fn = fn, !.calls = llmCall.calls + 1]

LlmUnchanged ==
  UNCHANGED <<fillerVars, adapterVars, recorderVars, pageVars, viewVars, routeVars>>

\* correctTranscription up to await generateText
correctTranscription(transcript) ==
  /\ llmCall.pc \in {"idle", "done"}
  /\ llmCall.calls < MaxCalls
  /\ llmCall' =
       IF IsBlank(transcript)
       THEN [NewLlmCall("correctTranscription") EXCEPT
               !.transcript = transcript, !.pc = "done",
               !.result = Err(<<"CorrectionFailed", "InputEmpty">>)]
       ELSE [NewLlmCall("correctTranscription") EXCEPT
               !.transcript = transcript, !.pc = "awaitGenerate",
               !.generateCalls = 1]
  /\ LlmUnchanged

\* generateText settles; the rest of correctTranscription
GenerateTextSettles(answer) ==
  /\ llmCall.pc = "awaitGenerate"
  /\ llmCall' = [llmCall EXCEPT
       !.pc = "done", !.answer = answer,
       !.result = CorrectionOutcome([kind |-> answer.kind, body |-> answer.text])]
  /\ LlmUnchanged

\* transcribeAudio up to await blobToBase64
transcribeAudio(module, blob) ==
  /\ llmCall.pc \in {"idle", "done"}
  /\ llmCall.calls < MaxCalls
  /\ llmCall' =
       IF module = "latest" /\ (blob.type = "" \/ blob.size = 0)
       THEN [NewLlmCall("transcribeAudio") EXCEPT
               !.module = module, !.blob = blob, !.pc = "done",
               !.result = Err(<<"TranscriptionFailed", "InvalidAudio">>)]
       ELSE [NewLlmCall("transcribeAudio") EXCEPT
               !.module = module, !.blob = blob, !.pc = "awaitReader"]
  /\ LlmUnchanged

\* the rejection transcribeAudio ends with
TranscribeAudioError(module, msg) ==
  IF module = "latest" THEN Err(<<"TranscriptionFailed">> \o msg)
  ELSE Err(<<"TranscriptionFailed">>)

\* the FileReader ends: blobToBase64 settles, and transcribeAudio goes on to
\* transcribeAudioWithGemini(base64Audio, mimeType) or to its catch
ReaderSettles(read) ==
  /\ llmCall.pc = "awaitReader"
  /\ LET encoded == blobToBase64(llmCall.module, read, llmCall.blob)
         seen == [llmCall EXCEPT !.read = read, !.encoded = encoded]
     IN  llmCall' =
           IF encoded.settled = "rejected"
           THEN [seen EXCEPT !.pc = "done",
                             !.result = TranscribeAudioError(llmCall.module, encoded.err)]
           ELSE IF llmCall.module = "latest" /\ encoded.value \in {<<>>, Undefined}
           THEN [seen EXCEPT !.pc = "done",
                             !.result = TranscribeAudioError(llmCall.module,
                                                             <<"EncodeFailed">>)]
           ELSE [seen EXCEPT !.pc = "awaitProvider", !.payload = encoded.value,
                             !.providerCalls = 1]
  /\ LlmUnchanged

\* transcribeAudioWithGemini settles; the rest of transcribeAudio
ProviderSettles(answer) ==
  /\ llmCall.pc = "awaitProvider"
  /\ llmCall' = [llmCall EXCEPT
       !.pc = "done", !.answer = answer,
       !.result =
         IF answer.kind = "throws"
         THEN TranscribeAudioError(llmCall.module, <<"ProviderError">>)
         ELSE IF llmCall.module = "latest" /\ IsBlank(answer.text)
         THEN TranscribeAudioError(llmCall.module, <<"ResultEmpty">>)
         ELSE Ok(Trim(answer.text))]
  /\ LlmUnchanged

\* ------------------------------------------------------------- specifications
vars == <<fillerVars, adapterVars, recorderVars, pageVars, viewVars, llmVars, routeVars>>

InitSpecFiller == InitFiller /\ geminiKey = TRUE /\ AdaptersIdle /\ AppIdle

NextFiller == ApplyFiller \/ ApplyFillerAgain

SpecFiller == InitSpecFiller /\ [][NextFiller]_vars

InitSpecAdapters == InitAdapters /\ FillerIdle /\ AppIdle

NextAdapters ==
  \/ \E m \in MimeTypes : transcribeAudioWithGemini(m)
  \/ generateText
  \/ \E answer \in GeminiAnswers : GenerateContentSettles(answer)
  \/ \E m \in MimeTypes : transcribeAudioWithSpeechAPI(m)
  \/ \E answer \in SpeechAnswers : FetchSettles(answer)
  \/ \E m \in MimeTypes : transcribeAudioWithSpeechClient(m)
  \/ \E answer \in ClientAnswers : RecognizeSettles(answer)

SpecAdapters == InitSpecAdapters /\ [][NextAdapters]_vars

Next ==
  \/ StartClick
  \/ \E outcome \in MicOutcomes : GetUserMediaSettles(outcome)
  \/ \E size \in {0, 1} : DataAvailable(size)
  \/ Tick
  \/ StopClick
  \/ MediaError
  \/ OnStop
  \/ Unmount
  \/ \E r \in Recordings, ok \in BOOLEAN : EncodeSettles(r, ok)
  \/ \E r \in Recordings, answer \in TranscriptAnswers : TranscribeSettles(r, answer)
  \/ \E r \in Recordings, answer \in CorrectionAnswers : CorrectionSettles(r, answer)
  \/ \E r \in Recordings, answer \in CorrectionAnswers : LateCorrectionSettles(r, answer)
  \/ \E type \in {"transcription", "corrected"} : handleTextAreaChange(type)

Spec == InitApp /\ [][Next]_vars

\* the recorder with the page's handler called at each delivery and no
\* provider call settling
NextRecorder ==
  \/ StartClick
  \/ \E outcome \in MicOutcomes : GetUserMediaSettles(outcome)
  \/ \E size \in {0, 1} : DataAvailable(size)
  \/ Tick
  \/ StopClick
  \/ MediaError
  \/ OnStop
  \/ Unmount

SpecRecorder == InitApp /\ [][NextRecorder]_vars

\* the stream-keeping recorder with the page's handler called at each delivery
NextKeep ==
  \/ \E granted \in BOOLEAN : KeepMountSettles(granted)
  \/ \E recorderThrows \in BOOLEAN : KeepStartClick(recorderThrows)
  \/ \E recorderThrows \in BOOLEAN : RetryClick(recorderThrows)
  \/ \E outcome \in MicOutcomes, saysPermission \in BOOLEAN :
        KeepGetUserMediaSettles(outcome, saysPermission)
  \/ \E size \in {0, 1} : DataAvailable(size)
  \/ Tick
  \/ KeepStopClick
  \/ MediaError
  \/ KeepOnStop
  \/ KeepUnmount

SpecKeep == InitKeep /\ [][NextKeep]_vars

\* the recorder of the page in every browser that has the recording facility:
\* each set of supported types, a ceiling never reached
InitFormat ==
  /\ geminiKey = TRUE
  /\ AdaptersIdle
  /\ FillerIdle
  /\ maxDurationMs = TimerMs * (MaxTicks + 1)
  /\ isRecording = FALSE
  /\ recordingTime = 0
  /\ recProcessing = FALSE
  /\ mediaSupport = "ok"
  /\ mounted = TRUE
  /\ hasPermission = "unknown"
  /\ streamRef = NoStream
  /\ mountPc = "done"
  /\ recorderModule = "release"
  /\ supportedTypes \in SUBSET KnownTypes
  /\ selectedMimeType = ""
  /\ recorderOptions = NoOptions
  /\ recError = checkMediaSupport(mediaSupport)
  /\ startPc = "idle"
  /\ mediaRecorder = "none"
  /\ stopPending = FALSE
  /\ audioChunks = <<>>
  /\ chunkEvents = <<>>
  /\ recCount = 0
  /\ liveStreams = {}
  /\ apiKeyError = ~geminiKey
  /\ transcription = NoText
  /\ fillerRemovedText = NoText
  /\ correctedText = NoText
  /\ isTranscribing = FALSE
  /\ isProcessing = FALSE
  /\ errorMessage = Null
  /\ runs = [r \in Recordings |-> NoRun]
  /\ editableTexts = [transcription |-> NoText, corrected |-> NoText]
  /\ typedTexts = [transcription |-> NoText, corrected |-> NoText]
  /\ llmCall = IdleLlmCall
  /\ routeCall = IdleRouteCall

NextFormat ==
  \/ StartClick
  \/ \E outcome \in MicOutcomes : GetUserMediaSettles(outcome)
  \/ \E size \in {0, 1} : DataAvailable(size)
  \/ StopClick
  \/ OnStop

SpecFormat == InitFormat /\ [][NextFormat]_vars

\* the page and its result view, with recordings handed over at any moment
InitPage == InitApp /\ mediaSupport = "ok" /\ maxDurationMs = TimerMs * MaxTicks

NextPage ==
  \/ \E size \in 1..MaxChunks : Deliver(size)
  \/ \E r \in Recordings, ok \in BOOLEAN : EncodeSettles(r, ok)
  \/ \E r \in Recordings, answer \in TranscriptAnswers : TranscribeSettles(r, answer)
  \/ \E r \in Recordings, answer \in CorrectionAnswers : CorrectionSettles(r, answer)
  \/ \E r \in Recordings, answer \in CorrectionAnswers : LateCorrectionSettles(r, answer)
  \/ \E type \in {"transcription", "corrected"} : handleTextAreaChange(type)

SpecPage == InitPage /\ [][NextPage]_vars

InitLlm == geminiKey = TRUE /\ AdaptersIdle /\ FillerIdle /\ AppIdle

NextLlm ==
  \/ \E transcript \in LlmTranscripts : correctTranscription(transcript)
  \/ \E answer \in LlmAnswers : GenerateTextSettles(answer)
  \/ \E module \in LlmModules, blob \in LlmBlobs : transcribeAudio(module, blob)
  \/ \E read \in ReadResults : ReaderSettles(read)
  \/ \E answer \in LlmAnswers : ProviderSettles(answer)

SpecLlm == InitLlm /\ [][NextLlm]_vars

InitRoute == InitAdapters /\ FillerIdle /\ AppIdle

NextRoute ==
  \/ \E body \in RouteBodies : POST(body)
  \/ \E answer \in SpeechAnswers : RouteAdapterSettles(answer)

SpecRoute == InitRoute /\ [][NextRoute]_vars

NextEarlier ==
  \/ EarlierStartClick
  \/ \E outcome \in MicOutcomes : EarlierGetUserMediaSettles(outcome)
  \/ \E size \in {0, 1} : DataAvailable(size)
  \/ Tick
  \/ StopClick
  \/ EarlierOnStop
  \/ Unmount

SpecEarlier == InitEarlier /\ [][NextEarlier]_vars

\* ------------------------------------------------------------- properties

\* C1: when correctTranscription fails while removeFillerSounds succeeded, the
\* page state at the end of the run holds a non-empty fillerRemovedText together
\* with an error for the correction.
PartialResultKept ==
  \A r \in Recordings :
    (/\ runs[r].pc = "returned"
     /\ runs[r].failedAt = "correct"
     /\ runs[r].filler.ok
     /\ LatestRun = r
     /\ \A q \in Recordings : ~InFlight(runs[q]))
    => (fillerRemovedText # NoText /\ errorMessage # Null)

\* C2: while the page is transcribing or post-processing a delivered recording,
\* the recorder's button does not lead to startRecording.
StartGatedByPipeline == (isTranscribing \/ isProcessing) => ~StartEnabled

\* C3: while the recorder is mounted, a stop that finds no chunks or a
\* zero-byte blob sets the recorder's error and leaves the page untouched, and
\* no run of handleRecordingComplete was ever given an empty artifact.
EmptyRecordingNeverDelivered ==
  /\ [](\A r \in Recordings : runs[r].pc # "none" => runs[r].size > 0)
  /\ [][(mounted /\ OnStop /\ BlobSize(audioChunks) = 0)
          => (recError' # Null /\ UNCHANGED <<pageVars, viewVars>>)]_vars

EmptyStopReported ==
  /\ recError = <<"NoRecordingData">>
  /\ ~stopPending
  /\ recCount > 0
  /\ runs[recCount].pc = "none"
\* C4: with the key absent, an adapter entry point ends in a failure that names
\* the missing credential, and the invocation issued no generateContent / fetch.
MissingKeyFailsWithCredentialError ==
  (adCall.pc = "done" /\ ~adCall.keyPresent)
    => /\ ~adCall.result.ok
       /\ adCall.calls = 0
       /\ \E i \in 1..Len(adCall.result.err) :
            adCall.result.err[i] \in {"MissingGeminiKey", "MissingSpeechKey"}

\* C5: recordingTime stays below maxDurationMs, and the tick at which
\* recordingTime + 1000 >= maxDurationMs leaves the counter as it was and the
\* recorder out of the recording state.
TimerStopsBeforeCeiling ==
  /\ [](recordingTime < maxDurationMs)
  /\ [][(Tick /\ recordingTime + TimerMs >= maxDurationMs)
          => (~isRecording' /\ recordingTime' = recordingTime)]_vars

ForcedStopAtCeiling ==
  /\ ~isRecording
  /\ stopPending
  /\ recordingTime > 0
  /\ recordingTime + TimerMs >= maxDurationMs
  /\ recordingTime < maxDurationMs
\* C6: the step at which a run of handleRecordingComplete returns leaves
\* isTranscribing and isProcessing false, and errorMessage non-null exactly when
\* a stage of that run failed.
RunEndsClean ==
  [][\A r \in Recordings :
       (runs[r].pc # "returned" /\ runs'[r].pc = "returned")
         => /\ ~isTranscribing'
            /\ ~isProcessing'
            /\ (errorMessage' # Null <=> runs'[r].failedAt # "none")]_vars

\* C7: with recordings delivered one after the other, the page's three texts and
\* the texts in the result view's text areas come from no recording older than
\* the last one delivered.
PreviousTextsGone ==
  (\A r \in Recordings : ~runs[r].concurrent)
    => /\ \A t \in {transcription, fillerRemovedText, correctedText} :
            t.rec \in {0, LatestRun}
       /\ \A t \in ShownTexts : t.rec \in {0, LatestRun}

\* C8: removeFillerSounds applied to the meeting sentence returns the sentence
\* without its two fillers and their commas, both full stops kept.
MeetingSentenceCleaned ==
  (fPhase # "input" /\ fInput = MeetingSentence) => fOut1 = Ok(MeetingSentenceClean)

\* C9: when removeFillerSounds succeeded, applying it to its own output succeeds
\* and returns that output unchanged.
StripperIdempotent ==
  fPhase = "twice" => (fOut2.ok /\ fOut2.text = fOut1.text)

\* C10: removeFillerSounds fails exactly when its input is blank or the text left
\* after stripping is blank; otherwise it returns a non-empty trimmed text.
StripperFailsExactlyOnBlank ==
  fPhase \in {"once", "twice"}
    => /\ ~fOut1.ok <=> (IsBlank(fInput) \/ IsBlank(Stripped(fModule, fInput)))
       /\ fOut1.ok => /\ fOut1.text # <<>>
                      /\ ~IsBlank(fOut1.text)
                      /\ Trim(fOut1.text) = fOut1.text

AllFillerInputRejected ==
  /\ fPhase = "once"
  /\ ~IsBlank(fInput)
  /\ ~fOut1.ok
  /\ fOut1.err = <<"FillerRemovalFailed", "ResultEmpty">>

\* C11: a speech-recognition request carries the documented pair for its MIME
\* type: WAV LINEAR16, WEBM WEBM_OPUS, MP3/MPEG MP3, FLAC FLAC, anything else
\* OGG_OPUS or LINEAR16; 48000 Hz for WEBM and 16000 Hz otherwise.  Stated for
\* the MIME types without parameters or x- prefix.
EncodingPairAsDocumented ==
  (/\ adCall.fn \in {"transcribeAudioWithSpeechAPI", "transcribeAudioWithSpeechClient"}
   /\ adCall.calls = 1
   /\ adCall.request[1] \notin {"audio/x-wav", "audio/webm;codecs=opus"})
    => LET m == adCall.request[1]
           encoding == adCall.request[2]
           rate == adCall.request[3]
       IN  /\ m = "audio/wav" => encoding = "LINEAR16"
           /\ m = "audio/webm" => encoding = "WEBM_OPUS"
           /\ m \in {"audio/mp3", "audio/mpeg"} => encoding = "MP3"
           /\ m = "audio/flac" => encoding = "FLAC"
           /\ m \in {"audio/mp4", "audio/ogg"} => encoding \in {"OGG_OPUS", "LINEAR16"}
           /\ rate = IF m = "audio/webm" THEN 48000 ELSE 16000

\* C12: transcribeAudioWithSpeechAPI ends in an error and no text when the
\* backend answered with a non-success status, with zero results, or with a
\* blank transcript; the zero-results error differs from the status error.
SpeechFailuresReported ==
  (adCall.fn = "transcribeAudioWithSpeechAPI" /\ adCall.pc = "done" /\ adCall.calls = 1)
    => /\ (\/ adCall.answer.kind \in {"notOk", "noResults"}
           \/ adCall.answer.kind = "results" /\ IsBlank(adCall.answer.text))
          => (~adCall.result.ok /\ adCall.result.text = <<>>)
       /\ adCall.result.ok => ~IsBlank(adCall.result.text)
       /\ SpeechOutcome([kind |-> "noResults", text |-> <<>>]).err
            # SpeechOutcome([kind |-> "notOk", text |-> <<>>]).err

BlankTranscriptRejected ==
  /\ adCall.fn = "transcribeAudioWithSpeechAPI"
  /\ adCall.pc = "done"
  /\ adCall.answer = [kind |-> "results", text |-> <<"sp">>]
  /\ ~adCall.result.ok

\* C13: once the recorder is unmounted and nothing it started is still under
\* way (no getUserMedia pending, no stop event queued), no microphone stream
\* it acquired has live tracks.
StreamsStoppedAfterTeardown ==
  (~mounted /\ startPc = "idle" /\ mountPc = "done" /\ ~stopPending)
    => liveStreams = {}

\* C17: when the getUserMedia of startRecording is refused, the step that
\* handles the refusal leaves an error set, isRecording false, the processing
\* flag cleared, no recorder started and the button disabled; in the recorder
\* of the page and in the stream-keeping recorder alike.
DenialDisablesStart ==
  [][/\ (recorderModule = "release" /\ mounted /\ GetUserMediaSettles("denied"))
          => /\ recError' # Null
             /\ ~isRecording' /\ ~recProcessing'
             /\ mediaRecorder' = mediaRecorder
             /\ ButtonDisabled'
     /\ (/\ recorderModule = "keep" /\ mounted
         /\ \E saysPermission \in BOOLEAN :
              KeepGetUserMediaSettles("denied", saysPermission))
          => /\ recError' # Null
             /\ ~isRecording' /\ ~recProcessing'
             /\ mediaRecorder' = mediaRecorder
             /\ KeepButtonDisabled']_vars

\* C18: in a browser without mediaDevices.getUserMedia or without
\* MediaRecorder, an error is shown at every moment and getUserMedia is never
\* called: not by the mount effect and not by startRecording.
UnsupportedNeverPrompts ==
  mediaSupport # "ok"
    => /\ recError # Null
       /\ startPc = "idle"
       /\ mountPc = "done"
       /\ recCount = 0 \/ mediaSupport = "noMediaDevices"

\* C14: the recorder is built for the first type of the list audio/webm,
\* audio/mp4, audio/mp3, audio/wav, audio/mpeg, audio/ogg that the browser
\* supports, with that type as its format option; when the browser supports
\* none of them, it is built without options.
FirstSupportedSelected ==
  mediaRecorder # "none"
    => LET priority == <<"audio/webm", "audio/mp4", "audio/mp3", "audio/wav",
                         "audio/mpeg", "audio/ogg">>
           usable == {i \in 1..Len(priority) : priority[i] \in supportedTypes}
       IN  /\ usable = {}
             => selectedMimeType = "" /\ recorderOptions = NoOptions
           /\ usable # {}
             => /\ \E i \in usable : /\ selectedMimeType = priority[i]
                                     /\ \A j \in usable : i <= j
                /\ recorderOptions # NoOptions
                /\ recorderOptions.mimeType = selectedMimeType

\* a recording runs in a browser that supports two types of the list, the
\* fourth and the sixth, and one type that is not in the list
LaterTypeSkipped ==
  /\ mediaRecorder = "recording"
  /\ supportedTypes = {"audio/wav", "audio/ogg", "audio/aac"}
  /\ selectedMimeType = "audio/wav"

\* C15: an edit in one of the two text areas leaves the text of the other
\* text area and the page's transcription, fillerRemovedText and correctedText
\* as they were.
EditChangesOnlyItsText ==
  [][\A type \in {"transcription", "corrected"} :
       handleTextAreaChange(type)
         => /\ LET other == IF type = "transcription" THEN "corrected"
                            ELSE "transcription"
               IN  editableTexts'[other] = editableTexts[other]
            /\ UNCHANGED <<transcription, fillerRemovedText, correctedText>>]_vars

\* the corrected text was edited after a recording that was transcribed and
\* corrected
CorrectedTextEdited ==
  /\ CardsShown
  /\ correctedText.body = <<"k">>
  /\ editableTexts.corrected = Txt(correctedText.rec, <<"edited">>)
  /\ editableTexts.transcription = transcription

\* C16: what post-processing leaves on the page is fixed by the outcomes of
\* removeFillerSounds and correctTranscription and not by the moment at which
\* correctTranscription settles: with both fulfilled the two texts are theirs
\* and the message is left alone; with removeFillerSounds rejected the message
\* is its error whatever correctTranscription does and whenever; with
\* correctTranscription alone rejected the message is its error; isProcessing
\* is false in each case, and a settlement after the return changes none of
\* the four.
PostProcessingOrderFree ==
  [][\A r \in Recordings :
       /\ (runs[r].pc = "transcribing" /\ runs'[r].pc = "returned"
             /\ runs'[r].failedAt = "filler")
            => /\ UNCHANGED <<fillerRemovedText, correctedText>>
               /\ errorMessage' = <<"FillerRemovalFailed", "ResultEmpty">>
               /\ ~isProcessing'
       /\ (runs[r].pc = "correcting" /\ runs'[r].pc = "returned")
            => /\ ~isProcessing'
               /\ IF runs'[r].failedAt = "none"
                  THEN /\ fillerRemovedText' = Txt(r, runs[r].filler.text)
                       /\ correctedText'.rec = r
                       /\ ~IsBlank(correctedText'.body)
                       /\ errorMessage' = errorMessage
                  ELSE /\ UNCHANGED <<fillerRemovedText, correctedText>>
                       /\ errorMessage' # Null
                       /\ errorMessage'[1] = "CorrectionFailed"
       /\ (runs[r].lateCorrection = "pending" /\ runs'[r].lateCorrection # "pending")
            => UNCHANGED <<fillerRemovedText, correctedText, errorMessage,
                           isProcessing>>]_vars

\* both transformations of the last recording have failed, the second of them
\* after the handler had returned
BothTransformationsFailed ==
  \E r \in Recordings :
    /\ LatestRun = r
    /\ runs[r].failedAt = "filler"
    /\ runs[r].lateCorrection = "rejected"
    /\ errorMessage = <<"FillerRemovalFailed", "ResultEmpty">>

\* C19: a call of correctTranscription with a blank transcript fails and
\* generateText is not called; with any other transcript generateText is
\* called once, a blank answer makes the call fail, and any other answer is
\* returned without the white space around it.
CorrectionChecksBothEnds ==
  (llmCall.fn = "correctTranscription" /\ llmCall.pc = "done")
    => IF IsBlank(llmCall.transcript)
       THEN ~llmCall.result.ok /\ llmCall.generateCalls = 0
       ELSE /\ llmCall.generateCalls = 1
            /\ (llmCall.answer.kind = "throws" \/ IsBlank(llmCall.answer.text))
                 => ~llmCall.result.ok
            /\ (llmCall.answer.kind = "text" /\ ~IsBlank(llmCall.answer.text))
                 => /\ llmCall.result.ok
                    /\ llmCall.result.text = Trim(llmCall.answer.text)
                    /\ ~IsSpace(Head(llmCall.result.text))
                    /\ ~IsSpace(llmCall.result.text[Len(llmCall.result.text)])

\* generateText answered with white space only and the call failed
BlankCorrectionRejected ==
  /\ llmCall.fn = "correctTranscription"
  /\ llmCall.pc = "done"
  /\ llmCall.answer = [kind |-> "text", text |-> <<"sp">>]
  /\ llmCall.generateCalls = 1
  /\ ~llmCall.result.ok

\* C20: blobToBase64 rejects when the read result is no string and when the
\* part after the comma is empty or missing, it never resolves with an empty
\* or undefined payload, and transcribeAudio hands no such payload to
\* transcribeAudioWithGemini.
EncodedPayloadNeverEmpty ==
  (llmCall.fn = "transcribeAudio" /\ llmCall.read # "none")
    => /\ (\/ llmCall.read \in {"notString", "noComma"}
           \/ llmCall.read = "dataUrl" /\ llmCall.blob.size = 0)
          => llmCall.encoded.settled = "rejected"
       /\ llmCall.encoded.settled = "resolved"
          => llmCall.encoded.value \notin {<<>>, Undefined}
       /\ llmCall.providerCalls > 0 => llmCall.payload \notin {<<>>, Undefined}

\* C21: the route answers 200 with a transcription body exactly when the adapter
\* returned a transcript; otherwise it answers with an error body, 400 without
\* calling the adapter when audioData or mimeType is missing from the body
\* object, 500 when reading the body or the adapter throws.
RouteStatusFollowsOutcome ==
  routeCall.pc = "responded"
    => LET body == routeCall.body
           response == routeCall.response
           missing == body.kind = "object"
                      /\ (body.audioData \in {Undefined, <<>>}
                          \/ body.mimeType \in {Undefined, <<>>})
       IN /\ response.status = 200
               <=> (routeCall.adapterCalls = 1 /\ routeCall.outcome.ok)
          /\ response.status = 200
               => /\ response.kind = "transcription"
                  /\ response.text = routeCall.outcome.text
                  /\ ~IsBlank(response.text)
          /\ response.status # 200
               => response.kind = "error" /\ response.status \in {400, 500}
          /\ missing <=> response.status = 400
          /\ missing => routeCall.adapterCalls = 0
          /\ (body.kind \in {"invalidJson", "null"} => response.status = 500)
          /\ (routeCall.adapterCalls = 1 /\ ~routeCall.outcome.ok)
               => /\ response.status = 500
                  /\ response.text = routeCall.outcome.err

\* a request without mimeType was refused with 400 and the adapter was not called
MissingFieldRefused ==
  /\ routeCall.pc = "responded"
  /\ routeCall.body = [kind |-> "object", audioData |-> <<"base64">>,
                       mimeType |-> Undefined]
  /\ routeCall.response.status = 400
  /\ routeCall.adapterCalls = 0

\* a complete request was answered with the adapter's transcript
TranscriptAnswered ==
  /\ routeCall.pc = "responded"
  /\ routeCall.response = TranscriptionResponse(<<"k">>)

\* C22: in each run the calls are made in the order encode, transcription
\* adapter, filler removal and correction; the adapter is called only after the
\* encoding succeeded, the two text transformations only after the adapter gave
\* a non-blank transcript, and a failed stage is the last one of its run.
StagesInOrder ==
  \A r \in Recordings :
    LET run == runs[r]
        n == Len(run.stages)
    IN /\ n \in {0, 1, 2, 4}
       /\ run.stages = SubSeq(StageOrder, 1, n)
       /\ n >= 2 => run.encoded = "ok"
       /\ n = 4 => run.transcribed = "text"
       /\ run.encoded = "failed" => n = 1 /\ run.pc = "returned"
       /\ run.transcribed \in {"blank", "threw"} => n = 2 /\ run.pc = "returned"
       /\ run.failedAt = "validate" => n = 0

\* one run ended at a failed encoding, another went through all four calls
EncodeFailureEndedRun ==
  \E r, q \in Recordings :
    /\ runs[r].pc = "returned"
    /\ runs[r].encoded = "failed"
    /\ runs[r].stages = <<"encode">>
    /\ runs[q].pc = "returned"
    /\ runs[q].stages = StageOrder

\* C23: the blob handed to onRecordingComplete consists of exactly the non-empty
\* chunks the recorder of this recording emitted, in the order of their events,
\* none of them from an earlier recording, and its type is the MIME type the
\* recorder was built with ('audio/webm' when none of the list was supported).
ArtifactIsSessionChunks ==
  [][(mounted /\ OnStop /\ ~RecordingIsEmpty(audioChunks))
       => LET run == runs'[recCount]
          IN /\ run.chunks = SelectSeq(chunkEvents, LAMBDA c : c.size > 0)
             /\ \A i \in 1..Len(run.chunks) : run.chunks[i].rec = recCount
             /\ \A i, j \in 1..Len(run.chunks) :
                   i < j => run.chunks[i].n < run.chunks[j].n
             /\ run.type = IF recorderOptions.mimeType # ""
                           THEN recorderOptions.mimeType
                           ELSE "audio/webm"]_vars

\* the second recording was delivered without its empty first chunk, after a
\* first recording of two chunks
SecondArtifactDelivered ==
  /\ runs[1].chunks = <<Chunk(1, 1, 1), Chunk(1, 2, 1)>>
  /\ runs[2].chunks = <<Chunk(2, 2, 1)>>
  /\ runs[2].type = "audio/ogg"

\* C24: after the user edits the transcript text area, the text area holds the
\* edited text; the render that follows does not put the page's transcript back.
TranscriptEditPersists ==
  typedTexts.transcription # NoText
    => editableTexts.transcription = typedTexts.transcription

\* C25: in the stream-keeping recorder a startRecording that finds a stream
\* held asks for no other, the end of a recording leaves the tracks of the
\* stream running, and the component never has more than one live stream.
OneStreamKept ==
  /\ [](recorderModule = "keep" => Cardinality(liveStreams) <= 1)
  /\ [][(recorderModule = "keep" /\ streamRef # NoStream /\ startPc = "idle")
          => startPc' = "idle"]_vars
  /\ [][(recorderModule = "keep" /\ KeepOnStop) => liveStreams' = liveStreams]_vars

\* C26: when no call of any run is pending, the transcript and the corrected
\* text of the page are those of the recording delivered last (or empty), and
\* while the run of that recording is in flight its loading flags are set.
LatestRunWins ==
  /\ (\A r \in Recordings : ~InFlight(runs[r]) /\ runs[r].lateCorrection # "pending")
       => /\ transcription.rec \in {0, LatestRun}
          /\ correctedText.rec \in {0, LatestRun}
  /\ \A r \in Recordings :
       (r = LatestRun /\ InFlight(runs[r]))
         => /\ isTranscribing
            /\ runs[r].pc = "correcting" => isProcessing

\* C27: an error event of the MediaRecorder during a recording ends the
\* recording in the component: afterwards isRecording is false and the error is
\* shown.
ErrorEventStopsRecording ==
  [][(mounted /\ isRecording /\ MediaError)
       => (~isRecording' /\ recError' # Null)]_vars

\* C28: once a recording has ended with the empty-recording error or with an
\* error of the stop, and processing is over, the start control is enabled.
StartEnabledAfterFailedRecording ==
  (/\ mounted
   /\ recError \in {<<"NoRecordingData">>, <<"RecordingIsEmpty">>, <<"StopFailed">>}
   /\ ~recProcessing
   /\ ~isRecording
   /\ startPc = "idle"
   /\ ~stopPending)
    => StartEnabled

\* C29: whenever a recording starts, recordingTime is 0, whatever recordings
\* came before.
RecordingStartsAtZero ==
  [][(~isRecording /\ isRecording') => recordingTime' = 0]_vars

============================================================================
